---- MODULE Spec2Model ----
(***************************************************************************)
(* Schema-context cache and query-safety pipeline of the AI SQL assistant  *)
(* backend: the expiring in-memory cache (utils/cache.js), schema          *)
(* preparation and the generate/validate/execute orchestration             *)
(* (services/queryService.js, services/aiService.js) and the request       *)
(* handlers that drive them (controllers/queryController.js).              *)
(***************************************************************************)
EXTENDS Integers, Sequences, FiniteSets, TLC

(***************************************************************************)
(* Bounds of the model.                                                    *)
(***************************************************************************)
\* Last instant (ms) the clock is observed at.
MaxNow == 1001
\* The clock is observed at the instants t with t % 1000 <= Jitter.
Jitter == 1
\* Largest TTL (seconds) the cache harness passes to set().
MaxTtl == 2
\* Largest number of rows the external database returns for a query.
MaxRows == 1
\* The configured SCHEMA_CACHE_TTL (seconds) of the environment.
SCHEMA_CACHE_TTL == 1

(***************************************************************************)
(* Program constants.                                                      *)
(***************************************************************************)
\* cache.js: ttl * 1000, "Convert to milliseconds".
MsPerSecond == 1000
\* queryService.js: parseInt(process.env.SCHEMA_CACHE_TTL) || 600
DefaultTtl == 600

\* JavaScript null, as returned by cache.get for an absent or expired key.
\* No text of the model equals this string.
null == "<null>"

(***************************************************************************)
(* Texts.  A text is held in the state as a string; the string operations  *)
(* of the code (trim, toUpperCase, startsWith, replace, match, RegExp.test)*)
(* are computed on its characters.  TextTable lists, for every text the    *)
(* model handles character by character, the string and its characters.    *)
(* The backquote of a markdown code fence cannot be written in a string    *)
(* here; the character "~" stands for it throughout.                       *)
(***************************************************************************)
TextTable == {
    <<"SELECT 1",
      <<"S", "E", "L", "E", "C", "T", " ", "1">> >>,
    <<"~~~sql\nSELECT 1\n~~~",
      <<"~", "~", "~", "s", "q", "l", "\n", "S", "E", "L", "E", "C", "T", " ", "1", "\n", "~", "~", "~">> >>,
    <<"SELECT 1; DROP TABLE t",
      <<"S", "E", "L", "E", "C", "T", " ", "1", ";", " ", "D", "R", "O", "P", " ", "T", "A", "B", "L", "E", " ", "t">> >>,
    <<"ERROR: no",
      <<"E", "R", "R", "O", "R", ":", " ", "n", "o">> >>,
    <<"ERROR: select x",
      <<"E", "R", "R", "O", "R", ":", " ", "s", "e", "l", "e", "c", "t", " ", "x">> >>,
    <<"select x",
      <<"s", "e", "l", "e", "c", "t", " ", "x">> >>,
    <<"ok",
      <<"o", "k">> >>,
    <<" SELECT 1 ",
      <<" ", "S", "E", "L", "E", "C", "T", " ", "1", " ">> >>,
    <<"DROP TABLE t",
      <<"D", "R", "O", "P", " ", "T", "A", "B", "L", "E", " ", "t">> >>,
    <<"Generated query is not a SELECT statement",
      <<"G", "e", "n", "e", "r", "a", "t", "e", "d", " ", "q", "u", "e", "r", "y", " ", "i", "s", " ", "n", "o", "t", " ", "a", " ", "S", "E", "L", "E", "C", "T", " ", "s", "t", "a", "t", "e", "m", "e", "n", "t">> >>,
    <<"quota",
      <<"q", "u", "o", "t", "a">> >>,
    <<"SELECTED 1",
      <<"S", "E", "L", "E", "C", "T", "E", "D", " ", "1">> >>,
    <<"integer",
      <<"i", "n", "t", "e", "g", "e", "r">> >>,
    <<"INTEGER",
      <<"I", "N", "T", "E", "G", "E", "R">> >>,
    <<"",
      <<>> >>,
    <<"invalid-format",
      <<"i", "n", "v", "a", "l", "i", "d", "-", "f", "o", "r", "m", "a", "t">> >>,
    <<"a:b:c",
      <<"a", ":", "b", ":", "c">> >>,
    <<":",
      <<":">> >>,
    <<"::",
      <<":", ":">> >>,
    <<"no-colon",
      <<"n", "o", "-", "c", "o", "l", "o", "n">> >>,
    <<"my-secret-key",
      <<"m", "y", "-", "s", "e", "c", "r", "e", "t", "-", "k", "e", "y">> >>,
    <<"anon-key",
      <<"a", "n", "o", "n", "-", "k", "e", "y">> >>,
    <<"service-key",
      <<"s", "e", "r", "v", "i", "c", "e", "-", "k", "e", "y">> >>,
    <<"00112233445566778899aabbccddeeff",
      <<"0", "0", "1", "1", "2", "2", "3", "3", "4", "4", "5", "5", "6", "6", "7", "7", "8", "8", "9", "9", "a", "a", "b", "b", "c", "c", "d", "d", "e", "e", "f", "f">> >>,
    <<"ffeeddccbbaa99887766554433221100",
      <<"f", "f", "e", "e", "d", "d", "c", "c", "b", "b", "a", "a", "9", "9", "8", "8", "7", "7", "6", "6", "5", "5", "4", "4", "3", "3", "2", "2", "1", "1", "0", "0">> >>,
    <<"8ff271f9ff2615c508b026eeb55fa512",
      <<"8", "f", "f", "2", "7", "1", "f", "9", "f", "f", "2", "6", "1", "5", "c", "5", "0", "8", "b", "0", "2", "6", "e", "e", "b", "5", "5", "f", "a", "5", "1", "2">> >>,
    <<"dc3519e71e89b7d646359afb64a3b2a5",
      <<"d", "c", "3", "5", "1", "9", "e", "7", "1", "e", "8", "9", "b", "7", "d", "6", "4", "6", "3", "5", "9", "a", "f", "b", "6", "4", "a", "3", "b", "2", "a", "5">> >>,
    <<"3b0ad49c19a00bca8b50e130e37a29ef",
      <<"3", "b", "0", "a", "d", "4", "9", "c", "1", "9", "a", "0", "0", "b", "c", "a", "8", "b", "5", "0", "e", "1", "3", "0", "e", "3", "7", "a", "2", "9", "e", "f">> >>,
    <<"2293d06b24aedc9603200c21ad1573b5",
      <<"2", "2", "9", "3", "d", "0", "6", "b", "2", "4", "a", "e", "d", "c", "9", "6", "0", "3", "2", "0", "0", "c", "2", "1", "a", "d", "1", "5", "7", "3", "b", "5">> >>,
    <<"722d9a44fcfcde33e90748b7d3ef0733",
      <<"7", "2", "2", "d", "9", "a", "4", "4", "f", "c", "f", "c", "d", "e", "3", "3", "e", "9", "0", "7", "4", "8", "b", "7", "d", "3", "e", "f", "0", "7", "3", "3">> >>,
    <<"616bcf10ea867b802204f158d744c31f",
      <<"6", "1", "6", "b", "c", "f", "1", "0", "e", "a", "8", "6", "7", "b", "8", "0", "2", "2", "0", "4", "f", "1", "5", "8", "d", "7", "4", "4", "c", "3", "1", "f">> >>,
    <<"00112233445566778899aabbccddeeff:8ff271f9ff2615c508b026eeb55fa512",
      <<"0", "0", "1", "1", "2", "2", "3", "3", "4", "4", "5", "5", "6", "6", "7", "7", "8", "8", "9", "9", "a", "a", "b", "b", "c", "c", "d", "d", "e", "e", "f", "f", ":", "8", "f", "f", "2", "7", "1", "f", "9", "f", "f", "2", "6", "1", "5", "c", "5", "0", "8", "b", "0", "2", "6", "e", "e", "b", "5", "5", "f", "a", "5", "1", "2">> >>,
    <<"ffeeddccbbaa99887766554433221100:dc3519e71e89b7d646359afb64a3b2a5",
      <<"f", "f", "e", "e", "d", "d", "c", "c", "b", "b", "a", "a", "9", "9", "8", "8", "7", "7", "6", "6", "5", "5", "4", "4", "3", "3", "2", "2", "1", "1", "0", "0", ":", "d", "c", "3", "5", "1", "9", "e", "7", "1", "e", "8", "9", "b", "7", "d", "6", "4", "6", "3", "5", "9", "a", "f", "b", "6", "4", "a", "3", "b", "2", "a", "5">> >>,
    <<"00112233445566778899aabbccddeeff:3b0ad49c19a00bca8b50e130e37a29ef",
      <<"0", "0", "1", "1", "2", "2", "3", "3", "4", "4", "5", "5", "6", "6", "7", "7", "8", "8", "9", "9", "a", "a", "b", "b", "c", "c", "d", "d", "e", "e", "f", "f", ":", "3", "b", "0", "a", "d", "4", "9", "c", "1", "9", "a", "0", "0", "b", "c", "a", "8", "b", "5", "0", "e", "1", "3", "0", "e", "3", "7", "a", "2", "9", "e", "f">> >>,
    <<"ffeeddccbbaa99887766554433221100:2293d06b24aedc9603200c21ad1573b5",
      <<"f", "f", "e", "e", "d", "d", "c", "c", "b", "b", "a", "a", "9", "9", "8", "8", "7", "7", "6", "6", "5", "5", "4", "4", "3", "3", "2", "2", "1", "1", "0", "0", ":", "2", "2", "9", "3", "d", "0", "6", "b", "2", "4", "a", "e", "d", "c", "9", "6", "0", "3", "2", "0", "0", "c", "2", "1", "a", "d", "1", "5", "7", "3", "b", "5">> >>,
    <<"00112233445566778899aabbccddeeff:722d9a44fcfcde33e90748b7d3ef0733",
      <<"0", "0", "1", "1", "2", "2", "3", "3", "4", "4", "5", "5", "6", "6", "7", "7", "8", "8", "9", "9", "a", "a", "b", "b", "c", "c", "d", "d", "e", "e", "f", "f", ":", "7", "2", "2", "d", "9", "a", "4", "4", "f", "c", "f", "c", "d", "e", "3", "3", "e", "9", "0", "7", "4", "8", "b", "7", "d", "3", "e", "f", "0", "7", "3", "3">> >>,
    <<"ffeeddccbbaa99887766554433221100:616bcf10ea867b802204f158d744c31f",
      <<"f", "f", "e", "e", "d", "d", "c", "c", "b", "b", "a", "a", "9", "9", "8", "8", "7", "7", "6", "6", "5", "5", "4", "4", "3", "3", "2", "2", "1", "1", "0", "0", ":", "6", "1", "6", "b", "c", "f", "1", "0", "e", "a", "8", "6", "7", "b", "8", "0", "2", "2", "0", "4", "f", "1", "5", "8", "d", "7", "4", "4", "c", "3", "1", "f">> >>,
    <<"00112233445566778899aabbccddeeff:dc3519e71e89b7d646359afb64a3b2a5",
      <<"0", "0", "1", "1", "2", "2", "3", "3", "4", "4", "5", "5", "6", "6", "7", "7", "8", "8", "9", "9", "a", "a", "b", "b", "c", "c", "d", "d", "e", "e", "f", "f", ":", "d", "c", "3", "5", "1", "9", "e", "7", "1", "e", "8", "9", "b", "7", "d", "6", "4", "6", "3", "5", "9", "a", "f", "b", "6", "4", "a", "3", "b", "2", "a", "5">> >>,
    <<"zz:8ff271f9ff2615c508b026eeb55fa512",
      <<"z", "z", ":", "8", "f", "f", "2", "7", "1", "f", "9", "f", "f", "2", "6", "1", "5", "c", "5", "0", "8", "b", "0", "2", "6", "e", "e", "b", "5", "5", "f", "a", "5", "1", "2">> >>,
    <<"zz",
      <<"z", "z">> >>,
    <<"a",
      <<"a">> >>,
    <<"b",
      <<"b">> >>,
    <<"c",
      <<"c">> >>
}


chars(s) == (CHOOSE p \in TextTable : p[1] = s)[2]
str(cs) == (CHOOSE p \in TextTable : p[2] = cs)[1]

Lower == <<"a", "b", "c", "d", "e", "f", "g", "h", "i", "j", "k", "l", "m",
           "n", "o", "p", "q", "r", "s", "t", "u", "v", "w", "x", "y", "z">>
Upper == <<"A", "B", "C", "D", "E", "F", "G", "H", "I", "J", "K", "L", "M",
           "N", "O", "P", "Q", "R", "S", "T", "U", "V", "W", "X", "Y", "Z">>
Digits == {"0", "1", "2", "3", "4", "5", "6", "7", "8", "9"}

toUpperChar(c) ==
    IF \E i \in 1..26 : Lower[i] = c
    THEN Upper[CHOOSE i \in 1..26 : Lower[i] = c]
    ELSE c

\* String.prototype.toUpperCase
toUpperCase(cs) == [i \in 1..Len(cs) |-> toUpperChar(cs[i])]

\* \w of a regular expression
IsWordChar(c) ==
    \/ \E i \in 1..26 : Lower[i] = c \/ Upper[i] = c
    \/ c \in Digits
    \/ c = "_"

\* \s of a regular expression, the white space trim() removes
IsSpace(c) == c \in {" ", "\n", "\t", "\r"}

RECURSIVE trimStart(_)
trimStart(cs) ==
    IF cs # <<>> /\ IsSpace(Head(cs)) THEN trimStart(Tail(cs)) ELSE cs

RECURSIVE trimEnd(_)
trimEnd(cs) ==
    IF cs # <<>> /\ IsSpace(cs[Len(cs)])
    THEN trimEnd(SubSeq(cs, 1, Len(cs) - 1))
    ELSE cs

\* String.prototype.trim
trim(cs) == trimEnd(trimStart(cs))

\* p occurs in cs at position i
MatchAt(cs, i, p) ==
    /\ i + Len(p) - 1 <= Len(cs)
    /\ SubSeq(cs, i, i + Len(p) - 1) = p

\* String.prototype.startsWith
startsWith(cs, p) == MatchAt(cs, 1, p)

\* cs.replace(/<fence>\n?/g, ''), scanning from position i
RECURSIVE replaceFence(_, _, _)
replaceFence(cs, i, fence) ==
    IF i > Len(cs)
    THEN <<>>
    ELSE IF MatchAt(cs, i, fence)
         THEN LET j == i + Len(fence)
              IN  replaceFence(cs, IF j <= Len(cs) /\ cs[j] = "\n" THEN j + 1 ELSE j,
                               fence)
         ELSE <<cs[i]>> \o replaceFence(cs, i + 1, fence)

FenceSql == <<"~", "~", "~", "s", "q", "l">>
Fence == <<"~", "~", "~">>
SELECT == <<"S", "E", "L", "E", "C", "T">>
ERROR == <<"E", "R", "R", "O", "R", ":">>

\* generatedSQL.replace(/~~~sql\n?/g, '').replace(/~~~\n?/g, '').trim()
stripCodeFences(cs) == trim(replaceFence(replaceFence(cs, 1, FenceSql), 1, Fence))

\* cleanedSQL.match(/SELECT[\s\S]*/i): the positions where SELECT occurs in
\* any letter case; the match is the text from the first of them to the end.
SelectPositions(cs) ==
    LET up == toUpperCase(cs)
    IN  {i \in 1..Len(cs) : MatchAt(up, i, SELECT)}

selectMatch(cs) ==
    LET at == SelectPositions(cs)
    IN  IF at = {}
        THEN cs
        ELSE trim(SubSeq(cs, CHOOSE i \in at : \A j \in at : i <= j, Len(cs)))

\* new RegExp('\\b' + keyword + '\\b', 'i').test(cs): the keyword, in any letter
\* case, with no word character right before or right after it.
wordTest(cs, keyword) ==
    LET up == toUpperCase(cs)
    IN  \E i \in 1..Len(cs) :
            /\ MatchAt(up, i, keyword)
            /\ i = 1 \/ ~IsWordChar(cs[i - 1])
            /\ i + Len(keyword) - 1 = Len(cs) \/ ~IsWordChar(cs[i + Len(keyword)])

dangerousKeywords == <<
    <<"D", "R", "O", "P">>,
    <<"D", "E", "L", "E", "T", "E">>,
    <<"I", "N", "S", "E", "R", "T">>,
    <<"U", "P", "D", "A", "T", "E">>,
    <<"A", "L", "T", "E", "R">>,
    <<"C", "R", "E", "A", "T", "E">>,
    <<"T", "R", "U", "N", "C", "A", "T", "E">>,
    <<"G", "R", "A", "N", "T">>,
    <<"R", "E", "V", "O", "K", "E">>,
    <<"E", "X", "E", "C">>,
    <<"E", "X", "E", "C", "U", "T", "E">> >>

\* aiService.js validateSQLSafety, on the characters of the query
validateSQLSafetyChars(cs) ==
    /\ startsWith(trim(toUpperCase(cs)), SELECT)
    /\ \A k \in 1..Len(dangerousKeywords) : ~wordTest(cs, dangerousKeywords[k])

\* validateSQLSafety of every text of the table, evaluated once
validateSQLSafetyOf ==
    [s \in {p[1] : p \in TextTable} |-> validateSQLSafetyChars(chars(s))]

validateSQLSafety(sql) == validateSQLSafetyOf[sql]

(***************************************************************************)
(* The builds.  The repository holds two revisions of the cache's get, of  *)
(* the schema fetcher and of the SQL generator; a build is fixed when the  *)
(* process starts and never changes.                                       *)
(***************************************************************************)
CacheImpls == {"cache.js", "part_001"}
FetcherImpls == {"schemaFetcher.js", "part_003"}
AiImpls == {"aiService.js:51", "aiService.js:253"}
Builds == [cache : CacheImpls, fetcher : FetcherImpls, ai : AiImpls]

(***************************************************************************)
(* aiService.js generateSQLFromNaturalLanguage.                            *)
(***************************************************************************)
\* What the model provider answers: a completion text, or a thrown error
\* with its message and code.
ModelTexts == {"SELECT 1", "~~~sql\nSELECT 1\n~~~", "SELECT 1; DROP TABLE t",
               "ERROR: no", "ERROR: select x", "ok"}

ProviderReplies ==
    {[threw |-> FALSE, text |-> t, code |-> "none"] : t \in ModelTexts}
    \cup {[threw |-> TRUE, text |-> "quota", code |-> "insufficient_quota"]}

\* The response text trimmed, its code fences removed and, in the revision
\* at line 51, cut down to the text that starts at the first SELECT.
cleanedSQL(impl, text) ==
    LET stripped == stripCodeFences(trim(chars(text)))
    IN  IF impl = "aiService.js:51" THEN selectMatch(stripped) ELSE stripped

NotSelectMessage == "Generated query is not a SELECT statement"

\* The error thrown inside the try block, null when it runs to its return.
thrownInTry(impl, reply) ==
    IF reply.threw
    THEN reply.text
    ELSE LET cleaned == cleanedSQL(impl, reply.text)
         IN  IF startsWith(cleaned, ERROR)
             THEN str(cleaned)
             ELSE IF ~startsWith(toUpperCase(cleaned), SELECT)
                  THEN NotSelectMessage
                  ELSE null

\* The catch block: rethrow an ERROR: message, translate the two known
\* codes, wrap anything else.
rethrown(message, code) ==
    IF startsWith(chars(message), ERROR)
    THEN message
    ELSE IF code = "insufficient_quota"
         THEN "OpenAI API quota exceeded. Please check your API key and billing."
         ELSE IF code = "invalid_api_key"
              THEN "Invalid OpenAI API key"
              ELSE "Failed to generate SQL query: " \o message

\* The call as a whole: the SQL it returns, or the message it throws.
generateSQLFromNaturalLanguage(impl, reply) ==
    LET thrown == thrownInTry(impl, reply)
    IN  IF thrown # null
        THEN [threw |-> TRUE, sql |-> null,
              message |-> rethrown(thrown, reply.code)]
        ELSE [threw |-> FALSE, sql |-> str(cleanedSQL(impl, reply.text)),
              message |-> null]

\* The outcome of the call for every build and provider reply, evaluated once
generationOf ==
    [impl \in AiImpls |->
        [reply \in ProviderReplies |->
            generateSQLFromNaturalLanguage(impl, reply)]]

(***************************************************************************)
(* Schema discovery: buildSimpleSchema of utils/schemaFetcher.js, and the  *)
(* revision of it in part_003 that falls back to sampling one row of each  *)
(* of a fixed list of tables.                                              *)
(***************************************************************************)
RECURSIVE Concat(_)
Concat(texts) ==
    IF texts = <<>> THEN "" ELSE Head(texts) \o Concat(Tail(texts))

commonTables == <<"students", "courses", "enrollments", "teachers",
                  "departments", "grades", "assignments", "users",
                  "student_course_performance", "teacher_course_load">>

\* The external database as one discovery call sees it:
\*   tablesError  the information_schema.tables query fails
\*   tables       the table names that query lists
\*   columns      the information_schema.columns rows
\*   answers      the tables that answer select('*').limit(1)
\*   rows         the row sampled from an answering table (none: empty table),
\*                each field with the runtime type of its value
DbDown ==
    [tablesError |-> TRUE, tables |-> <<>>, columns |-> <<>>,
     answers |-> {}, rows |-> <<>>]
DbEmpty ==
    [tablesError |-> FALSE, tables |-> <<>>, columns |-> <<>>,
     answers |-> {}, rows |-> <<>>]
DbCatalog ==
    [tablesError |-> FALSE, tables |-> <<"students">>,
     columns |-> <<[table_name |-> "students", column_name |-> "id",
                    data_type |-> "integer", is_nullable |-> "NO"]>>,
     answers |-> {"students"},
     rows |-> <<[table |-> "students",
                 fields |-> <<[name |-> "id", type |-> "int"]>>]>>]
DbSampled ==
    [tablesError |-> TRUE, tables |-> <<>>, columns |-> <<>>,
     answers |-> {"students", "users"},
     rows |-> <<[table |-> "students",
                 fields |-> <<[name |-> "id", type |-> "int"],
                              [name |-> "gpa", type |-> "float"]>>]>>]

DbStates == {DbDown, DbEmpty, DbCatalog, DbSampled}

UnableText ==
    "-- Unable to fetch schema information. Please ensure proper permissions are set."
NoTablesText ==
    "-- No tables found. Please check your database connection and permissions."

\* schemaFetcher.js buildSimpleSchema: the table list, or the placeholder
\* when the query fails.
buildSimpleSchemaListing(db) ==
    IF db.tablesError
    THEN UnableText
    ELSE "-- Available Tables:\n"
         \o Concat([i \in 1..Len(db.tables) |-> "-- " \o db.tables[i] \o "\n"])

\* part_003: the type written for a sampled value
inferredType(type) ==
    CASE type = "int" -> "integer"
      [] type = "float" -> "numeric"
      [] type = "bool" -> "boolean"
      [] type = "date" -> "timestamp"
      [] OTHER -> "text"

sampledFields(db, tableName) ==
    LET hit == SelectSeq(db.rows, LAMBDA r : r.table = tableName)
    IN  IF hit = <<>> THEN <<>> ELSE hit[1].fields

\* part_003 buildDetailedSchemaFromIntrospection: the tables of commonTables
\* that answer, in list order.
answeringTables(db) == SelectSeq(commonTables, LAMBDA t : t \in db.answers)

buildDetailedSchemaFromIntrospection(db) ==
    LET found == answeringTables(db)
        block(t) ==
            "Table: " \o t \o "\n"
            \o Concat([i \in 1..Len(sampledFields(db, t)) |->
                   "  - " \o sampledFields(db, t)[i].name \o " ("
                   \o inferredType(sampledFields(db, t)[i].type) \o ")\n"])
            \o "\n"
    IN  IF Len(found) = 0
        THEN NoTablesText
        ELSE "-- PostgreSQL Database Schema (Introspected)\n\n"
             \o Concat([i \in 1..Len(found) |-> block(found[i])])

columnsOf(db, tableName) ==
    SelectSeq(db.columns, LAMBDA c : c.table_name = tableName)

\* part_003 buildSimpleSchema: the catalog when it lists a table, else the
\* row-sampling fallback.
buildSimpleSchemaCatalog(db) ==
    LET block(t) ==
            IF columnsOf(db, t) = <<>>
            THEN ""
            ELSE "Table: " \o t \o "\n"
                 \o Concat([i \in 1..Len(columnsOf(db, t)) |->
                        "  - " \o columnsOf(db, t)[i].column_name \o " ("
                        \o columnsOf(db, t)[i].data_type \o ")"
                        \o (IF columnsOf(db, t)[i].is_nullable = "NO"
                            THEN " NOT NULL" ELSE "")
                        \o "\n"])
                 \o "\n"
    IN  IF db.tablesError \/ Len(db.tables) = 0
        THEN buildDetailedSchemaFromIntrospection(db)
        ELSE "-- PostgreSQL Database Schema\n\n"
             \o Concat([i \in 1..Len(db.tables) |-> block(db.tables[i])])

buildSimpleSchema(impl, db) ==
    IF impl = "schemaFetcher.js"
    THEN buildSimpleSchemaListing(db)
    ELSE buildSimpleSchemaCatalog(db)

\* The schema text of every build and database, evaluated once
schemaTextOf ==
    [impl \in FetcherImpls |-> [db \in DbStates |-> buildSimpleSchema(impl, db)]]

\* How many tables the strategies of a build find in db.
tablesFound(impl, db) ==
    IF impl = "schemaFetcher.js"
    THEN IF db.tablesError THEN 0 ELSE Len(db.tables)
    ELSE IF db.tablesError \/ Len(db.tables) = 0
         THEN Len(answeringTables(db))
         ELSE Len(db.tables)

Users == {"u1"}
Conns == {"c1"}

\* cache.js generateSchemaKey / the template literal in the controllers.
generateSchemaKey(userId, connectionId) ==
    "schema:" \o userId \o ":" \o connectionId

\* A key that puts the connection before the user
connectionCacheKeySwapped(userId, id) ==
    "schema:" \o id \o ":" \o userId

\* connectionController.js updateConnection and deleteConnection: the
\* template literal of the key they hand to cache.delete.
connectionCacheKey(userId, id) ==
    "schema:" \o userId \o ":" \o id

\* The keys in use: the schema keys, and the key of the cache's unit tests.
Keys == {generateSchemaKey(u, c) : u \in Users, c \in Conns} \cup {"test-key"}

\* Values the cache harness stores.
HarnessValues == {"v1", "v2"}

\* The requests of a behaviour: two, so that one can find what the other
\* cached and the two can overlap at every await.
ReqIds == {1, 2}

VARIABLES
    build,      \* the revisions this process runs
    now,        \* Date.now(), in ms
    cache,      \* InMemoryCache.cache: key -> entry or NoEntry
    timers,     \* InMemoryCache.timers: key -> Timeout handle or NoTimer
    pending,    \* the runtime's armed timeouts (handles not yet fired or cleared)
    obs,        \* the most recent cache call of the harness and what it returned
    reqs,       \* the requests: where each handler stands, its locals, its response
    history,    \* the QueryHistory collection: the entries saved so far
    executorCalls  \* every SQL text handed to executeSQLQuery: request, text, time

cacheVars == <<cache, timers, pending>>
pipelineVars == <<reqs, history, executorCalls>>
vars == <<build, now, cache, timers, pending, obs, reqs, history, executorCalls>>

NoEntry == [value |-> null, timestamp |-> -1, ttl |-> -1]
NoTimer == [key |-> null, due |-> -1]

\* The three pieces of state the cache methods read and write.
CacheState == [cache |-> cache, timers |-> timers, pending |-> pending]

\* What the harness of a specification last observed; at first, nothing.
NoObs == [op |-> "none", key |-> null, value |-> null, ttl |-> -1,
          ret |-> null, pre |-> NoEntry, size |-> 0, at |-> 0]

\* getStats().size
size(C) == Cardinality({k \in DOMAIN C.cache : C.cache[k] # NoEntry})

(***************************************************************************)
(* InMemoryCache (utils/cache.js).  Each method is a function of the cache *)
(* state C and the time t at which it runs; it yields the new state and,   *)
(* for get/has/delete, the returned value.                                 *)
(***************************************************************************)

\* A delete that removes the entry and leaves its timeout armed
deleteKeepingTimer(C, key) ==
    [C |-> [cache   |-> [C.cache EXCEPT ![key] = NoEntry],
            timers  |-> C.timers,
            pending |-> C.pending],
     ret |-> C.cache[key] # NoEntry]

\* delete(key): clearTimeout + timers.delete when a timer is recorded, then
\* cache.delete; returns whether an entry was removed.
delete(C, key) ==
    LET hasTimer == C.timers[key] # NoTimer
    IN  [C |-> [cache   |-> [C.cache EXCEPT ![key] = NoEntry],
                timers  |-> IF hasTimer THEN [C.timers EXCEPT ![key] = NoTimer]
                                        ELSE C.timers,
                pending |-> IF hasTimer THEN C.pending \ {C.timers[key]}
                                        ELSE C.pending],
         ret |-> C.cache[key] # NoEntry]

\* A set that arms its timeout without clearing the one already recorded
setKeepingOldTimer(C, key, value, ttl, t) ==
    [cache   |-> [C.cache EXCEPT ![key] =
                     [value |-> value, timestamp |-> t,
                      ttl |-> ttl * MsPerSecond]],
     timers  |-> [C.timers EXCEPT ![key] =
                     [key |-> key, due |-> t + ttl * MsPerSecond]],
     pending |-> C.pending \cup {[key |-> key, due |-> t + ttl * MsPerSecond]}]

\* set(key, value, ttl): clear the existing timer, store the entry stamped
\* with Date.now(), arm a new timeout of ttl * 1000 ms and record it.
set(C, key, value, ttl, t) ==
    LET cleared == IF C.timers[key] # NoTimer
                   THEN C.pending \ {C.timers[key]}
                   ELSE C.pending
        timer   == [key |-> key, due |-> t + ttl * MsPerSecond]
    IN  [cache   |-> [C.cache EXCEPT ![key] =
                         [value |-> value, timestamp |-> t,
                          ttl |-> ttl * MsPerSecond]],
         timers  |-> [C.timers EXCEPT ![key] = timer],
         pending |-> cleared \cup {timer}]

\* The expiry test of get.  cache.js: now - item.timestamp > item.ttl.
\* part_001: Date.now() > entry.expiresAt, where set() stores no expiresAt,
\* so the comparison is with undefined and is false.
expired(impl, item, t) ==
    IF impl = "cache.js"
    THEN t - item.timestamp > item.ttl
    ELSE FALSE

\* get(key): null on a missing item; on an expired one delete it and return
\* null; otherwise the value.
get(C, key, t) ==
    LET item == C.cache[key]
    IN  IF item = NoEntry
        THEN [C |-> C, ret |-> null]
        ELSE IF expired(build.cache, item, t)
             THEN [C |-> delete(C, key).C, ret |-> null]
             ELSE [C |-> C, ret |-> item.value]

\* A has that only looks the key up in the map
hasEntryOnly(C, key, t) ==
    [C |-> C, ret |-> C.cache[key] # NoEntry]

\* has(key): this.cache.has(key) && this.get(key) !== null.
has(C, key, t) ==
    IF C.cache[key] # NoEntry
    THEN [C |-> get(C, key, t).C, ret |-> get(C, key, t).ret # null]
    ELSE [C |-> C, ret |-> FALSE]

\* A clear that empties both maps and leaves the timeouts armed
clearKeepingTimers(C) ==
    [cache   |-> [k \in DOMAIN C.cache |-> NoEntry],
     timers  |-> [k \in DOMAIN C.timers |-> NoTimer],
     pending |-> C.pending]

\* clear(): clear every recorded timer, then both maps.
clear(C) ==
    [cache   |-> [k \in DOMAIN C.cache |-> NoEntry],
     timers  |-> [k \in DOMAIN C.timers |-> NoTimer],
     pending |-> C.pending \ {C.timers[k] : k \in DOMAIN C.timers}]

\* A callback that runs and leaves the entry where it is
timerCallbackKeepingEntry(C, timer) ==
    [C EXCEPT !.pending = C.pending \ {timer}]

\* The setTimeout callback of set(): this.delete(key).
timerCallback(C, timer) ==
    LET D == delete(C, timer.key).C
    IN  [D EXCEPT !.pending = D.pending \ {timer}]

Install(C) ==
    /\ cache' = C.cache
    /\ timers' = C.timers
    /\ pending' = C.pending

(***************************************************************************)
(* Time.  The clock only moves forward; it is observed on the instants     *)
(* around every whole second.                                              *)
(***************************************************************************)
NextInstant(t) ==
    IF t % MsPerSecond < Jitter
    THEN t + 1
    ELSE (t \div MsPerSecond + 1) * MsPerSecond

Tick ==
    /\ NextInstant(now) <= MaxNow
    /\ now' = NextInstant(now)
    /\ UNCHANGED <<build, cacheVars, obs, pipelineVars>>

\* An armed timeout runs its callback at some moment at or after its delay.
TimerFire ==
    \E timer \in pending :
        /\ now >= timer.due
        /\ Install(timerCallback(CacheState, timer))
        /\ UNCHANGED <<build, now, obs, pipelineVars>>

(***************************************************************************)
(* Requests.  A handler runs from one await to the next without            *)
(* interruption; between two awaits other handlers, timers and the clock   *)
(* may run.  pc names the await a handler is suspended at.                 *)
(***************************************************************************)
NoResult ==
    [success |-> FALSE, generatedSQL |-> null, error |-> null,
     rowCount |-> -1, executionTime |-> -1]

NoResponse ==
    [status |-> 0, success |-> FALSE, message |-> null, error |-> null,
     generatedSQL |-> null, rowCount |-> -1, executionTime |-> -1]

NoReq ==
    [kind |-> "none", pc |-> "idle", user |-> null, conn |-> null,
     nlq |-> null, modelText |-> null, sql |-> null, schemaString |-> null,
     schemaContext |-> null, startTime |-> -1,
     result |-> NoResult, outcome |-> "none", validatedOk |-> {},
     executedOk |-> {}, logCalls |-> <<>>, saveFailed |-> FALSE,
     inFlight |-> {}, response |-> NoResponse]

\* JavaScript truthiness of a string-or-null
truthy(v) == v # null /\ v # ""

\* SQL texts a user posts to execute-sql, before body('sql').trim()
UserSqlInputs == {" SELECT 1 ", "DROP TABLE t", "SELECTED 1"}

\* What the external database answers to executeSQLQuery: the rows, or an
\* error that executeSQLQuery throws on.
ExecOutcomes ==
    {[ok |-> TRUE, rowCount |-> n, message |-> null] : n \in 0..MaxRows}
    \cup {[ok |-> FALSE, rowCount |-> 0, message |-> "permission denied"]}

\* queryService.js: parseInt(process.env.SCHEMA_CACHE_TTL) || 600
schemaCacheTtl ==
    IF SCHEMA_CACHE_TTL = 0 THEN DefaultTtl ELSE SCHEMA_CACHE_TTL

\* next(error): the error handler answers with the error's message.
errorResponse(message) ==
    [NoResponse EXCEPT !.status = 500, !.message = message]

\* A prepareSchema that leaves an entry written in the meantime in place
prepareSchemaKeepingFirst(C, cacheKey, schemaString, t) ==
    [C |-> IF C.cache[cacheKey] # NoEntry THEN C
           ELSE [cache   |-> [C.cache EXCEPT ![cacheKey] =
                                 [value |-> schemaString, timestamp |-> t,
                                  ttl |-> SCHEMA_CACHE_TTL * MsPerSecond]],
                 timers  |-> [C.timers EXCEPT ![cacheKey] =
                                 [key |-> cacheKey,
                                  due |-> t + SCHEMA_CACHE_TTL * MsPerSecond]],
                 pending |-> C.pending \cup
                                 {[key |-> cacheKey,
                                   due |-> t + SCHEMA_CACHE_TTL * MsPerSecond]}],
     threw |-> TRUE,
     value |-> null,
     message |-> "Schema preparation failed: schemaContext is not defined"]

(***************************************************************************)
(* queryService.js prepareSchema, from the return of buildSimpleSchema on: *)
(* cache.set(cacheKey, schemaString, ttl), then "return schemaContext".    *)
(* No schemaContext is declared in that scope or in the module, so the     *)
(* return statement throws a ReferenceError, which the catch block wraps.  *)
(***************************************************************************)
prepareSchemaAfterFetch(C, cacheKey, schemaString, t) ==
    [C |-> set(C, cacheKey, schemaString, schemaCacheTtl, t),
     threw |-> TRUE,
     value |-> null,
     message |-> "Schema preparation failed: schemaContext is not defined"]

\* A gate that lets every text through unchecked
generatedSqlGateSkipped(sql) ==
    [called |-> {}, pass |-> TRUE]

\* generateAndExecuteQuery line 57: the safety check of the generated SQL.
\* called: the texts handed to validateSQLSafety; pass: go on to execute.
generatedSqlGate(sql) ==
    [called |-> {sql}, pass |-> validateSQLSafety(sql)]

\* A handler that executes the posted text without the safety check
rawSqlGateSkipped(sql) ==
    [called |-> {}, pass |-> TRUE]

\* executeRawSQL line 180: the safety check of the posted SQL.
rawSqlGate(sql) ==
    [called |-> {sql}, pass |-> validateSQLSafety(sql)]

\* A catch block that drops the message of the error it caught
failureResultWithoutMessage(message, executionTime) ==
    [success |-> FALSE, generatedSQL |-> null, error |-> null,
     rowCount |-> -1, executionTime |-> executionTime]

\* generateAndExecuteQuery: the result of the catch block
failureResult(message, executionTime) ==
    [success |-> FALSE, generatedSQL |-> null, error |-> message,
     rowCount |-> -1, executionTime |-> executionTime]

\* generateAndExecuteQuery: the result returned after executeSQLQuery
successResult(generatedSQL, rowCount, executionTime) ==
    [success |-> TRUE, generatedSQL |-> generatedSQL, error |-> null,
     rowCount |-> rowCount, executionTime |-> executionTime]

\* generateAndRunQuery lines 106-116: the entry handed to logQuery
generateHistoryEntry(i, r, result) ==
    [req |-> i,
     naturalLanguageQuery |-> r.nlq,
     generatedSql |-> IF truthy(result.generatedSQL) THEN result.generatedSQL
                      ELSE "Failed to generate SQL",
     status |-> IF result.success THEN "success" ELSE "error",
     errorMessage |-> IF truthy(result.error) THEN result.error ELSE null,
     executionTime |-> result.executionTime,
     rowCount |-> IF result.rowCount > 0 THEN result.rowCount ELSE 0]

\* A handler that logs successful attempts only
generateLogCallsOnSuccessOnly(i, r, result) ==
    IF result.success THEN <<generateHistoryEntry(i, r, result)>> ELSE <<>>

\* generateAndRunQuery: the logQuery calls made once the result is known
generateLogCalls(i, r, result) == <<generateHistoryEntry(i, r, result)>>

\* executeRawSQL lines 196-205: the entry handed to logQuery
rawHistoryEntry(i, r, rowCount, executionTime) ==
    [req |-> i,
     naturalLanguageQuery |-> "[Direct SQL Execution]",
     generatedSql |-> r.sql,
     status |-> "success",
     errorMessage |-> "<undefined>",
     executionTime |-> executionTime,
     rowCount |-> IF rowCount > 0 THEN rowCount ELSE 0]

\* generateAndRunQuery lines 118-140: the answer once the entry is saved
generateResponse(result) ==
    IF ~result.success
    THEN [NoResponse EXCEPT !.status = 400, !.message = "Query execution failed",
              !.error = result.error, !.generatedSQL = result.generatedSQL]
    ELSE [NoResponse EXCEPT !.status = 200, !.success = TRUE,
              !.message = "Query executed successfully",
              !.generatedSQL = result.generatedSQL,
              !.rowCount = result.rowCount,
              !.executionTime = result.executionTime]

\* executeRawSQL lines 207-215
rawResponse(rowCount, executionTime) ==
    [NoResponse EXCEPT !.status = 200, !.success = TRUE,
         !.message = "Query executed successfully",
         !.rowCount = rowCount, !.executionTime = executionTime]

UnsafeRawMessage ==
    "SQL query contains unsafe operations. Only SELECT queries are allowed."
UnsafeGeneratedMessage ==
    "Generated query contains unsafe operations. Only SELECT queries are allowed."

\* updateConnection lines 191-193, deleteConnection lines 232-234: the
\* cached schema of the connection is deleted.
invalidateSchema(C, userId, id) ==
    delete(C, connectionCacheKey(userId, id)).C

\* user.connections.id(connectionId) finds nothing once a deleteConnection
\* has saved the user without the connection.
connectionDeleted(u, c) ==
    \E j \in ReqIds :
        /\ reqs[j].kind = "delete-connection"
        /\ reqs[j].user = u /\ reqs[j].conn = c
        /\ reqs[j].pc = "done" /\ reqs[j].response.status = 200

\* The requests a client can send
RequestKinds ==
    {"generate-sql", "prepare-schema", "execute-sql",
     "update-connection", "delete-connection"}

\* A request arrives, passes the express-validator rules (which trim the
\* posted SQL) and looks up its user and connection.  A query handler
\* whose connection is gone throws 'Connection not found' into next();
\* updateConnection and deleteConnection answer 404.  Otherwise the query
\* handlers go on, and the connection handlers await user.save().
Submit(i) ==
    /\ reqs[i].kind = "none"
    /\ \A j \in ReqIds : j < i => reqs[j].kind # "none"
    /\ \E u \in Users, c \in Conns, kind \in RequestKinds :
         \E raw \in IF kind = "execute-sql" THEN UserSqlInputs ELSE {null} :
           LET arrived ==
                   [NoReq EXCEPT !.kind = kind, !.user = u, !.conn = c,
                       !.nlq = IF kind = "generate-sql" THEN "how many"
                               ELSE null,
                       !.sql = IF kind = "execute-sql"
                               THEN str(trim(chars(raw))) ELSE null]
               isQuery ==
                   kind \in {"generate-sql", "prepare-schema", "execute-sql"}
           IN  reqs' = [reqs EXCEPT ![i] =
                   IF connectionDeleted(u, c)
                   THEN [arrived EXCEPT !.pc = "done",
                            !.response =
                                IF isQuery
                                THEN errorResponse("Connection not found")
                                ELSE [NoResponse EXCEPT !.status = 404,
                                         !.message = "Connection not found"]]
                   ELSE [arrived EXCEPT
                            !.pc = IF isQuery THEN "handler" ELSE "saving"]]
    /\ UNCHANGED <<build, now, cacheVars, obs, history, executorCalls>>

\* user.save() of updateConnection or deleteConnection returns: the
\* handler deletes the cached schema of the connection and answers; when
\* the save rejects, the handler's catch hands the error to next().
ConnectionSaveReturns(i) ==
    LET r == reqs[i]
        cacheKey == connectionCacheKey(r.user, r.conn)
    IN  /\ r.pc = "saving"
        /\ \/ /\ Install(invalidateSchema(CacheState, r.user, r.conn))
              /\ reqs' = [reqs EXCEPT ![i] =
                    [r EXCEPT !.pc = "done",
                        !.inFlight =
                            {j \in ReqIds :
                                /\ reqs[j].pc = "discover"
                                /\ generateSchemaKey(reqs[j].user, reqs[j].conn)
                                     = cacheKey},
                        !.response = [NoResponse EXCEPT !.status = 200,
                            !.success = TRUE,
                            !.message =
                                IF r.kind = "update-connection"
                                THEN "Connection updated successfully"
                                ELSE "Connection deleted successfully"]]]
           \/ /\ UNCHANGED cacheVars
              /\ reqs' = [reqs EXCEPT ![i] =
                    [r EXCEPT !.pc = "done",
                        !.response = errorResponse("save failed")]]
        /\ UNCHANGED <<build, now, obs, history, executorCalls>>

\* generateAndRunQuery lines 88-96 and prepareSchema lines 18-27: cache.get;
\* on a hit go on to generateAndExecuteQuery (startTime = Date.now(), then
\* the provider call); on a miss prepareSchema reads the cache again and
\* awaits buildSimpleSchema.
GenerateSqlBegin(i) ==
    LET r == reqs[i]
        g == get(CacheState, generateSchemaKey(r.user, r.conn), now)
    IN  /\ r.kind = "generate-sql" /\ r.pc = "handler"
        /\ Install(get(g.C, generateSchemaKey(r.user, r.conn), now).C)
        /\ reqs' = [reqs EXCEPT ![i] =
              IF truthy(g.ret)
              THEN [r EXCEPT !.schemaContext = g.ret, !.startTime = now,
                             !.pc = "model"]
              ELSE [r EXCEPT !.pc = "discover"]]
        /\ UNCHANGED <<build, now, obs, history, executorCalls>>

\* prepareSchemaForConnection lines 36-48 with prepareSchema lines 18-27
PrepareSchemaBegin(i) ==
    LET r == reqs[i]
        g == get(CacheState, generateSchemaKey(r.user, r.conn), now)
    IN  /\ r.kind = "prepare-schema" /\ r.pc = "handler"
        /\ Install(g.C)
        /\ reqs' = [reqs EXCEPT ![i] =
              IF truthy(g.ret)
              THEN [r EXCEPT !.schemaContext = g.ret, !.pc = "done",
                       !.response = [NoResponse EXCEPT !.status = 200,
                           !.success = TRUE,
                           !.message = "Schema prepared and cached successfully"]]
              ELSE [r EXCEPT !.pc = "discover"]]
        /\ UNCHANGED <<build, now, obs, history, executorCalls>>

\* buildSimpleSchema returns to prepareSchema, which runs to its end; the
\* handler goes on with the schema, or hands the error to next().
DiscoveryReturns(i) ==
    LET r == reqs[i]
    IN  /\ r.pc = "discover"
        /\ \E db \in DbStates :
             LET schemaString == schemaTextOf[build.fetcher][db]
                 out == prepareSchemaAfterFetch(CacheState,
                            generateSchemaKey(r.user, r.conn),
                            schemaString, now)
             IN  /\ Install(out.C)
                 /\ reqs' = [reqs EXCEPT ![i] =
                       IF out.threw
                       THEN [r EXCEPT !.schemaString = schemaString,
                                      !.outcome = "schema failed",
                                      !.pc = "done",
                                      !.response = errorResponse(out.message)]
                       ELSE IF r.kind = "generate-sql"
                            THEN [r EXCEPT !.schemaString = schemaString,
                                           !.schemaContext = out.value,
                                           !.startTime = now, !.pc = "model"]
                            ELSE [r EXCEPT !.schemaString = schemaString,
                                     !.schemaContext = out.value,
                                     !.pc = "done",
                                     !.response = [NoResponse EXCEPT
                                         !.status = 200, !.success = TRUE,
                                         !.message =
                                           "Schema prepared and cached successfully"]]]
        /\ UNCHANGED <<build, now, obs, history, executorCalls>>

\* The provider answers; generateAndExecuteQuery lines 51-69 and 80-91: a
\* thrown generation or a failed safety check gives the failure result and
\* the handler calls logQuery; a safe query goes to executeSQLQuery.
ModelReturns(i) ==
    LET r == reqs[i]
    IN  /\ r.pc = "model"
        /\ \E reply \in ProviderReplies :
             LET gen  == generationOf[build.ai][reply]
                 gate == generatedSqlGate(gen.sql)
                 text == IF reply.threw THEN null ELSE reply.text
                 fail(message, outcome) ==
                     LET result == failureResult(message, now - r.startTime)
                     IN  [r EXCEPT !.modelText = text,
                                   !.result = result, !.outcome = outcome,
                                   !.logCalls = generateLogCalls(i, r, result),
                                   !.pc = "save"]
             IN  IF gen.threw
                 THEN /\ reqs' = [reqs EXCEPT ![i] =
                                     fail(gen.message, "generation failed")]
                      /\ UNCHANGED executorCalls
                 ELSE IF ~gate.pass
                      THEN /\ reqs' = [reqs EXCEPT ![i] =
                                [fail(UnsafeGeneratedMessage, "validation failed")
                                   EXCEPT !.sql = gen.sql]]
                           /\ UNCHANGED executorCalls
                      ELSE /\ reqs' = [reqs EXCEPT ![i] =
                                [r EXCEPT !.modelText = text,
                                    !.sql = gen.sql, !.pc = "execute",
                                    !.validatedOk =
                                        {q \in gate.called : validateSQLSafety(q)}]]
                           /\ executorCalls' =
                                executorCalls
                                  \cup {[req |-> i, sql |-> gen.sql, at |-> now]}
        /\ UNCHANGED <<build, now, cacheVars, obs, history>>

\* executeRawSQL lines 178-192: the safety check, the 400 answer on an
\* unsafe query, else startTime and the call of executeSQLQuery.
ExecuteSqlBegin(i) ==
    LET r == reqs[i]
        gate == rawSqlGate(r.sql)
    IN  /\ r.kind = "execute-sql" /\ r.pc = "handler"
        /\ IF ~gate.pass
           THEN /\ reqs' = [reqs EXCEPT ![i] =
                      [r EXCEPT !.pc = "done", !.outcome = "validation failed",
                          !.response = [NoResponse EXCEPT !.status = 400,
                                            !.message = UnsafeRawMessage]]]
                /\ UNCHANGED executorCalls
           ELSE /\ reqs' = [reqs EXCEPT ![i] =
                      [r EXCEPT !.pc = "execute", !.startTime = now,
                          !.validatedOk =
                              {q \in gate.called : validateSQLSafety(q)}]]
                /\ executorCalls' =
                      executorCalls \cup {[req |-> i, sql |-> r.sql, at |-> now]}
        /\ UNCHANGED <<build, now, cacheVars, obs, history>>

\* executeSQLQuery returns or throws.  generateAndExecuteQuery lines 71-91:
\* either way a result, and the handler calls logQuery.  executeRawSQL
\* lines 193-205 and 216-218: logQuery on success, next(error) on a throw.
ExecutorReturns(i) ==
    LET r == reqs[i]
    IN  /\ r.pc = "execute"
        /\ \E out \in ExecOutcomes :
             reqs' = [reqs EXCEPT ![i] =
               IF r.kind = "generate-sql"
               THEN LET result ==
                          IF out.ok
                          THEN successResult(r.sql, out.rowCount, now - r.startTime)
                          ELSE failureResult(out.message, now - r.startTime)
                    IN  [r EXCEPT !.result = result,
                            !.executedOk = IF out.ok THEN {r.sql} ELSE {},
                            !.outcome = IF out.ok THEN "success"
                                        ELSE "execution failed",
                            !.logCalls = generateLogCalls(i, r, result),
                            !.pc = "save"]
               ELSE IF out.ok
                    THEN [r EXCEPT
                            !.result = successResult(r.sql, out.rowCount,
                                                     now - r.startTime),
                            !.executedOk = {r.sql},
                            !.outcome = "success",
                            !.logCalls = <<rawHistoryEntry(i, r, out.rowCount,
                                                           now - r.startTime)>>,
                            !.pc = "save"]
                    ELSE [r EXCEPT !.outcome = "execution failed",
                            !.pc = "done",
                            !.response = errorResponse(out.message)]]
        /\ UNCHANGED <<build, now, cacheVars, obs, history, executorCalls>>

\* QueryHistory.logQuery lines 58-67: entry.save() resolves and the handler
\* answers, or it rejects, logQuery rethrows and the handler's catch hands
\* the error to next().
SaveReturns(i) ==
    LET r == reqs[i]
    IN  /\ r.pc = "save"
        /\ \/ /\ history' = history \o r.logCalls
              /\ reqs' = [reqs EXCEPT ![i] =
                    [r EXCEPT !.pc = "done",
                        !.response =
                            IF r.kind = "generate-sql"
                            THEN generateResponse(r.result)
                            ELSE rawResponse(r.result.rowCount,
                                             r.result.executionTime)]]
           \/ /\ history' = history
              /\ reqs' = [reqs EXCEPT ![i] =
                    [r EXCEPT !.pc = "done", !.saveFailed = TRUE,
                        !.response = errorResponse("save failed")]]
        /\ UNCHANGED <<build, now, cacheVars, obs, executorCalls>>

Init ==
    /\ build \in Builds
    /\ now = 0
    /\ cache = [k \in Keys |-> NoEntry]
    /\ timers = [k \in Keys |-> NoTimer]
    /\ pending = {}
    /\ obs = NoObs
    /\ reqs = [i \in ReqIds |-> NoReq]
    /\ history = <<>>
    /\ executorCalls = {}

Next ==
    \/ \E i \in ReqIds : Submit(i)
    \/ \E i \in ReqIds : GenerateSqlBegin(i)
    \/ \E i \in ReqIds : PrepareSchemaBegin(i)
    \/ \E i \in ReqIds : ExecuteSqlBegin(i)
    \/ \E i \in ReqIds : DiscoveryReturns(i)
    \/ \E i \in ReqIds : ModelReturns(i)
    \/ \E i \in ReqIds : ExecutorReturns(i)
    \/ \E i \in ReqIds : SaveReturns(i)
    \/ \E i \in ReqIds : ConnectionSaveReturns(i)
    \/ Tick
    \/ TimerFire

Spec == Init /\ [][Next]_vars

(***************************************************************************)
(* Harness: the cache driven directly, as the unit tests do.               *)
(***************************************************************************)

HSet ==
    \E k \in Keys, v \in HarnessValues, ttl \in 1..MaxTtl :
        /\ Install(set(CacheState, k, v, ttl, now))
        /\ obs' = [op |-> "set", key |-> k, value |-> v, ttl |-> ttl,
                   ret |-> null,
                   pre |-> cache[k], size |-> size(CacheState),
                   at |-> now]
        /\ UNCHANGED <<build, now, pipelineVars>>

HGet ==
    \E k \in Keys :
        /\ Install(get(CacheState, k, now).C)
        /\ obs' = [op |-> "get", key |-> k, value |-> null, ttl |-> -1,
                   ret |-> get(CacheState, k, now).ret,
                   pre |-> cache[k], size |-> size(CacheState),
                   at |-> now]
        /\ UNCHANGED <<build, now, pipelineVars>>

HHas ==
    \E k \in Keys :
        /\ Install(has(CacheState, k, now).C)
        /\ obs' = [op |-> "has", key |-> k, value |-> null, ttl |-> -1,
                   ret |-> IF has(CacheState, k, now).ret THEN "true" ELSE "false",
                   pre |-> cache[k], size |-> size(CacheState),
                   at |-> now]
        /\ UNCHANGED <<build, now, pipelineVars>>

HDelete ==
    \E k \in Keys :
        /\ Install(delete(CacheState, k).C)
        /\ obs' = [op |-> "delete", key |-> k, value |-> null, ttl |-> -1,
                   ret |-> IF delete(CacheState, k).ret THEN "true" ELSE "false",
                   pre |-> cache[k], size |-> size(CacheState),
                   at |-> now]
        /\ UNCHANGED <<build, now, pipelineVars>>

HClear ==
    /\ Install(clear(CacheState))
    /\ obs' = [op |-> "clear", key |-> null, value |-> null, ttl |-> -1,
               ret |-> null,
               pre |-> NoEntry, size |-> size(CacheState), at |-> now]
    /\ UNCHANGED <<build, now, pipelineVars>>

CacheInit ==
    /\ build \in {b \in Builds : b.fetcher = "schemaFetcher.js" /\ b.ai = "aiService.js:51"}
    /\ now = 0
    /\ cache = [k \in Keys |-> NoEntry]
    /\ timers = [k \in Keys |-> NoTimer]
    /\ pending = {}
    /\ obs = NoObs
    /\ reqs = [i \in ReqIds |-> NoReq]
    /\ history = <<>>
    /\ executorCalls = {}

CacheNext ==
    \/ HSet
    \/ HGet
    \/ HHas
    \/ HDelete
    \/ HClear
    \/ Tick
    \/ TimerFire

CacheSpec == CacheInit /\ [][CacheNext]_vars


(***************************************************************************)
(* The cache under a running event loop: the clock advances and a timeout  *)
(* whose delay has passed runs its callback.  The clock is observed up to  *)
(* MaxNow, so set() is called only while the deadline of its timeout lies  *)
(* within the observed time.                                               *)
(***************************************************************************)
HSetWithinHorizon ==
    \E k \in Keys, v \in HarnessValues, ttl \in 1..MaxTtl :
        /\ now + ttl * MsPerSecond <= MaxNow
        /\ Install(set(CacheState, k, v, ttl, now))
        /\ obs' = [op |-> "set", key |-> k, value |-> v, ttl |-> ttl,
                   ret |-> null,
                   pre |-> cache[k], size |-> size(CacheState),
                   at |-> now]
        /\ UNCHANGED <<build, now, pipelineVars>>

CacheLiveNext ==
    \/ HSetWithinHorizon
    \/ HGet
    \/ HHas
    \/ HDelete
    \/ HClear
    \/ Tick
    \/ TimerFire

CacheLiveSpec ==
    /\ CacheInit
    /\ [][CacheLiveNext]_vars
    /\ WF_vars(Tick)
    /\ WF_vars(TimerFire)

(***************************************************************************)
(* Discovery on its own: fetchDatabaseSchema and the structure of what     *)
(* buildSimpleSchema describes, over every combination of failing catalog  *)
(* queries.                                                                *)
(***************************************************************************)
StudentColumns ==
    <<[table_name |-> "students", column_name |-> "id",
       data_type |-> "integer", is_nullable |-> "NO"]>>
StudentRow ==
    [table |-> "students",
     fields |-> <<[name |-> "id", type |-> "int"],
                  [name |-> "gpa", type |-> "float"]>>]
StudentForeignKeys ==
    <<[table_name |-> "students", column_name |-> "dept_id",
       referenced_table_name |-> "departments"]>>
StudentConstraints ==
    <<[table_name |-> "students", constraint_type |-> "PRIMARY KEY"]>>

\* The external database as the discovery calls see it: which catalog
\* queries fail, what the others return, and which tables answer a sample.
CatalogStates ==
    {[tablesError |-> te, columnsError |-> ce, fkError |-> fe,
      constraintsError |-> xe,
      tables |-> IF te THEN <<>> ELSE ts,
      columns |-> IF ce \/ te \/ ts = <<>> THEN <<>> ELSE StudentColumns,
      foreignKeys |-> IF fe \/ ts = <<>> THEN <<>> ELSE StudentForeignKeys,
      constraints |-> IF xe \/ ts = <<>> THEN <<>> ELSE StudentConstraints,
      answers |-> a,
      rows |-> IF "students" \in a THEN <<StudentRow>> ELSE <<>>] :
        te \in BOOLEAN, ce \in BOOLEAN, fe \in BOOLEAN, xe \in BOOLEAN,
        ts \in {<<>>, <<"students">>}, a \in SUBSET {"students", "users"}}

\* The strategies one buildSimpleSchema call runs, in the order it runs them
strategiesTried(impl, db) ==
    IF impl = "schemaFetcher.js"
    THEN <<"catalog">>
    ELSE IF db.tablesError \/ Len(db.tables) = 0
         THEN <<"catalog", "sampling">>
         ELSE <<"catalog">>

\* The columns buildDetailedSchemaFromIntrospection writes for a table
inferredColumns(db, tableName) ==
    [i \in 1..Len(sampledFields(db, tableName)) |->
        [column_name |-> sampledFields(db, tableName)[i].name,
         data_type |-> inferredType(sampledFields(db, tableName)[i].type)]]

\* The tables the text of buildSimpleSchema describes, with their columns
describedTables(impl, db) ==
    IF impl = "schemaFetcher.js"
    THEN IF db.tablesError
         THEN <<>>
         ELSE [i \in 1..Len(db.tables) |->
                  [table_name |-> db.tables[i], columns |-> <<>>]]
    ELSE IF db.tablesError \/ Len(db.tables) = 0
         THEN [i \in 1..Len(answeringTables(db)) |->
                  [table_name |-> answeringTables(db)[i],
                   columns |-> inferredColumns(db, answeringTables(db)[i])]]
         ELSE LET listed == SelectSeq(db.tables,
                                LAMBDA t : columnsOf(db, t) # <<>>)
              IN  [i \in 1..Len(listed) |->
                      [table_name |-> listed[i],
                       columns |->
                           [j \in 1..Len(columnsOf(db, listed[i])) |->
                               [column_name |->
                                    columnsOf(db, listed[i])[j].column_name,
                                data_type |->
                                    columnsOf(db, listed[i])[j].data_type]]]]

\* One buildSimpleSchema call: it never throws; it returns a text.
buildSimpleSchemaCall(impl, db) ==
    [threw |-> FALSE,
     text |-> buildSimpleSchema(impl, db),
     tried |-> strategiesTried(impl, db),
     tables |-> describedTables(impl, db)]

\* JavaScript typeof of a sampled value
typeOf(type) ==
    CASE type \in {"int", "float"} -> "number"
      [] type = "bool" -> "boolean"
      [] type = "date" -> "object"
      [] OTHER -> "string"

\* part_003 buildSimpleSchemaFallback: its own, shorter table list
fallbackTables ==
    <<"students", "courses", "enrollments", "teachers",
      "departments", "grades", "assignments", "users">>

buildSimpleSchemaFallback(db) ==
    LET found == SelectSeq(fallbackTables, LAMBDA t : t \in db.answers)
        cols(t) == [i \in 1..Len(sampledFields(db, t)) |->
                       [table_name |-> t,
                        column_name |-> sampledFields(db, t)[i].name,
                        data_type |-> typeOf(sampledFields(db, t)[i].type),
                        is_nullable |-> "YES"]]
        RECURSIVE all(_)
        all(ts) == IF ts = <<>> THEN <<>> ELSE cols(Head(ts)) \o all(Tail(ts))
    IN  [threw |-> FALSE, message |-> null, tried |-> <<"catalog", "sampling">>,
         tables |-> found, columns |-> all(found),
         foreignKeys |-> <<>>, constraints |-> <<>>]

\* A fetchDatabaseSchema that gives up when the foreign-key query fails
fetchDatabaseSchemaStrict(impl, db) ==
    IF db.tablesError \/ db.columnsError \/ db.fkError
    THEN [threw |-> TRUE, message |-> "Failed to fetch schema",
          tried |-> <<"catalog">>, tables |-> <<>>, columns |-> <<>>,
          foreignKeys |-> <<>>, constraints |-> <<>>]
    ELSE [threw |-> FALSE, message |-> null, tried |-> <<"catalog">>,
          tables |-> db.tables, columns |-> db.columns,
          foreignKeys |-> db.foreignKeys, constraints |-> <<>>]

\* fetchDatabaseSchema.  schemaFetcher.js: four rpc calls, the first two
\* fatal, the last two tolerated.  part_003: three catalog queries, the
\* first two answered by the fallback on error, the error of the third
\* ignored.  A failed query has no data (CatalogStates), and "data || []"
\* is then the empty list.
fetchDatabaseSchema(impl, db) ==
    LET failed(message) ==
            [threw |-> TRUE, message |-> message, tried |-> <<"catalog">>,
             tables |-> <<>>, columns |-> <<>>,
             foreignKeys |-> <<>>, constraints |-> <<>>]
        fetched(constraints) ==
            [threw |-> FALSE, message |-> null, tried |-> <<"catalog">>,
             tables |-> db.tables, columns |-> db.columns,
             foreignKeys |-> db.foreignKeys,
             constraints |-> constraints]
    IN  IF impl = "schemaFetcher.js"
        THEN IF db.tablesError
             THEN failed("Failed to fetch tables: permission denied")
             ELSE IF db.columnsError
                  THEN failed("Failed to fetch columns: permission denied")
                  ELSE fetched(db.constraints)
        ELSE IF db.tablesError \/ db.columnsError
             THEN buildSimpleSchemaFallback(db)
             ELSE fetched(<<>>)

(***************************************************************************)
(* buildPrioritizedSchema (utils/schemaFetcher.js), the formatter of a     *)
(* fetched schema.  The text is built line by line, as the code appends    *)
(* to schemaString.                                                        *)
(***************************************************************************)
\* The table names of the formatter's inputs, in the order localeCompare
\* puts them.
TableNames == <<"orders", "students", "users">>

\* String.prototype.localeCompare on table names: negative, zero or positive
localeCompare(a, b) ==
    (CHOOSE i \in 1..Len(TableNames) : TableNames[i] = a)
    - (CHOOSE i \in 1..Len(TableNames) : TableNames[i] = b)

\* Array.prototype.includes
includes(list, x) == \E i \in 1..Len(list) : list[i] = x

\* The comparator handed to sort
compareTables(priorityTables, a, b) ==
    LET aPriority == includes(priorityTables, a.table_name)
        bPriority == includes(priorityTables, b.table_name)
    IN  IF aPriority /\ ~bPriority THEN -1
        ELSE IF ~aPriority /\ bPriority THEN 1
        ELSE localeCompare(a.table_name, b.table_name)

\* [...tables].sort(comparator): Array.prototype.sort is stable, so an
\* element goes behind every element that does not compare greater.
RECURSIVE sortTables(_, _)
sortTables(tables, priorityTables) ==
    IF tables = <<>>
    THEN <<>>
    ELSE LET front == sortTables(SubSeq(tables, 1, Len(tables) - 1),
                                 priorityTables)
             last == tables[Len(tables)]
             keep == {i \in 1..Len(front) :
                         compareTables(priorityTables, front[i], last) <= 0}
             at == IF keep = {} THEN 0
                   ELSE CHOOSE i \in keep : \A j \in keep : j <= i
         IN  SubSeq(front, 1, at) \o <<last>>
             \o SubSeq(front, at + 1, Len(front))

\* Sequence concatenation of a sequence of sequences
RECURSIVE Flatten(_)
Flatten(ss) == IF ss = <<>> THEN <<>> ELSE Head(ss) \o Flatten(Tail(ss))

\* The lines buildPrioritizedSchema appends for one table
tableBlock(schemaData, tableName) ==
    LET tableColumns == SelectSeq(schemaData.columns,
                            LAMBDA col : col.table_name = tableName)
        tableFKs == SelectSeq(schemaData.foreignKeys,
                            LAMBDA fk : fk.table_name = tableName)
        columnDef(col) ==
            "  " \o col.column_name \o " "
            \o str(toUpperCase(chars(col.data_type)))
            \o (IF col.is_nullable = "NO" THEN " NOT NULL" ELSE "")
            \o (IF col.column_default \notin {null, ""}
                THEN " DEFAULT " \o col.column_default ELSE "")
    IN  <<"-- Table: " \o tableName \o "\n",
          "CREATE TABLE " \o tableName \o " (\n">>
        \o [i \in 1..Len(tableColumns) |->
               columnDef(tableColumns[i])
               \o (IF i = Len(tableColumns) THEN "" ELSE ",") \o "\n"]
        \o <<");\n">>
        \o (IF Len(tableFKs) > 0
            THEN <<"-- Foreign Keys for " \o tableName \o ":\n">>
                 \o [i \in 1..Len(tableFKs) |->
                        "--   " \o tableFKs[i].column_name \o " -> "
                        \o tableFKs[i].foreign_table_name \o "."
                        \o tableFKs[i].foreign_column_name \o "\n"]
            ELSE <<>>)
        \o <<"\n">>

buildPrioritizedSchemaLines(schemaData, priorityTables) ==
    LET sortedTables == sortTables(schemaData.tables, priorityTables)
        foreignKeys == schemaData.foreignKeys
    IN  <<"-- PostgreSQL Database Schema\n\n">>
        \o Flatten([i \in 1..Len(sortedTables) |->
                       tableBlock(schemaData, sortedTables[i].table_name)])
        \o (IF Len(foreignKeys) > 0
            THEN <<"-- Relationships Summary:\n">>
                 \o [i \in 1..Len(foreignKeys) |->
                        "-- " \o foreignKeys[i].table_name \o "."
                        \o foreignKeys[i].column_name \o " references "
                        \o foreignKeys[i].foreign_table_name \o "."
                        \o foreignKeys[i].foreign_column_name \o "\n"]
            ELSE <<>>)

\* buildPrioritizedSchema(schemaData, priorityTables): the returned string
buildPrioritizedSchema(schemaData, priorityTables) ==
    Concat(buildPrioritizedSchemaLines(schemaData, priorityTables))

\* The sequences without repetition over a set
DistinctSeqs(S) ==
    UNION {{f \in [1..n -> S] : \A i, j \in 1..n : f[i] = f[j] => i = j} :
              n \in 0..Cardinality(S)}

TableNameSet == {TableNames[i] : i \in 1..Len(TableNames)}

IdColumn(tableName) ==
    [table_name |-> tableName, column_name |-> "id",
     data_type |-> "integer", is_nullable |-> "NO", column_default |-> null]

OrderForeignKey ==
    [table_name |-> "orders", column_name |-> "user_id",
     foreign_table_name |-> "users", foreign_column_name |-> "id"]

\* What fetchDatabaseSchema can hand to the formatter: the tables in the
\* order the catalog lists them, columns for some of them, and the
\* foreign key of orders when the catalog reports it.
SchemaDatas ==
    {[tables |-> [i \in 1..Len(ts) |-> [table_name |-> ts[i]]],
      columns |-> [i \in 1..Len(cs) |-> IdColumn(cs[i])],
      foreignKeys |-> fks,
      constraints |-> <<>>] :
        ts \in DistinctSeqs(TableNameSet),
        cs \in {SelectSeq(TableNames, LAMBDA n : n \in S) :
                   S \in SUBSET TableNameSet},
        fks \in {<<>>, <<OrderForeignKey>>}}

PriorityLists == DistinctSeqs(TableNameSet)

HBuildSimpleSchema ==
    \E db \in CatalogStates :
        /\ obs' = [op |-> "buildSimpleSchema", db |-> db,
                   out |-> buildSimpleSchemaCall(build.fetcher, db)]
        /\ UNCHANGED <<build, now, cacheVars, pipelineVars>>

HFetchDatabaseSchema ==
    \E db \in CatalogStates :
        /\ obs' = [op |-> "fetchDatabaseSchema", db |-> db,
                   out |-> fetchDatabaseSchema(build.fetcher, db)]
        /\ UNCHANGED <<build, now, cacheVars, pipelineVars>>

DiscoveryInit ==
    /\ build \in {b \in Builds : b.cache = "cache.js" /\ b.ai = "aiService.js:51"}
    /\ now = 0
    /\ cache = [k \in Keys |-> NoEntry]
    /\ timers = [k \in Keys |-> NoTimer]
    /\ pending = {}
    /\ obs = NoObs
    /\ reqs = [i \in ReqIds |-> NoReq]
    /\ history = <<>>
    /\ executorCalls = {}

DiscoveryNext ==
    \/ HBuildSimpleSchema
    \/ HFetchDatabaseSchema

DiscoverySpec == DiscoveryInit /\ [][DiscoveryNext]_vars

(***************************************************************************)
(* The formatter on its own: an input is drawn, then formatted.            *)
(***************************************************************************)
HBuildPrioritizedSchema ==
    /\ obs.op = "formatter input"
    /\ obs' = [op |-> "buildPrioritizedSchema",
               schemaData |-> obs.schemaData,
               priorityTables |-> obs.priorityTables,
               out |-> [text |-> buildPrioritizedSchema(obs.schemaData,
                                                        obs.priorityTables),
                        lines |-> buildPrioritizedSchemaLines(
                                      obs.schemaData, obs.priorityTables)]]
    /\ UNCHANGED <<build, now, cacheVars, pipelineVars>>

FormatterInit ==
    /\ build = [cache |-> "cache.js", fetcher |-> "schemaFetcher.js",
                ai |-> "aiService.js:51"]
    /\ now = 0
    /\ cache = [k \in Keys |-> NoEntry]
    /\ timers = [k \in Keys |-> NoTimer]
    /\ pending = {}
    /\ obs \in {[op |-> "formatter input", schemaData |-> schemaData,
                 priorityTables |-> priorityTables] :
                    schemaData \in SchemaDatas,
                    priorityTables \in PriorityLists}
    /\ reqs = [i \in ReqIds |-> NoReq]
    /\ history = <<>>
    /\ executorCalls = {}

FormatterNext == HBuildPrioritizedSchema

FormatterSpec == FormatterInit /\ [][FormatterNext]_vars

(***************************************************************************)
(* The schema keys on their own: several users and connections, the cache  *)
(* write of prepareSchema under the key of the query handlers and the      *)
(* cache.delete of updateConnection / deleteConnection under theirs.       *)
(***************************************************************************)
\* Identifiers of users and of connections (ObjectId strings: hexadecimal)
PairIds == {"64a1", "64b2"}

PairKeys == {generateSchemaKey(u, c) : u \in PairIds, c \in PairIds}

\* prepare-schema / generate-sql for connection c of user u reach cache.set
HPrepareSchema ==
    \E u \in PairIds, c \in PairIds, schemaString \in HarnessValues :
        /\ Install(prepareSchemaAfterFetch(CacheState, generateSchemaKey(u, c),
                                           schemaString, now).C)
        /\ obs' = [op |-> "prepareSchema", user |-> u, conn |-> c,
                   pre |-> cache]
        /\ UNCHANGED <<build, now, pipelineVars>>

\* updateConnection / deleteConnection of connection c of user u reach
\* cache.delete
HInvalidate ==
    \E u \in PairIds, c \in PairIds :
        /\ Install(invalidateSchema(CacheState, u, c))
        /\ obs' = [op |-> "invalidate", user |-> u, conn |-> c,
                   pre |-> cache]
        /\ UNCHANGED <<build, now, pipelineVars>>

KeyInit ==
    /\ build = [cache |-> "cache.js", fetcher |-> "schemaFetcher.js",
                ai |-> "aiService.js:51"]
    /\ now = 0
    /\ cache = [k \in PairKeys |-> NoEntry]
    /\ timers = [k \in PairKeys |-> NoTimer]
    /\ pending = {}
    /\ obs = NoObs
    /\ reqs = [i \in ReqIds |-> NoReq]
    /\ history = <<>>
    /\ executorCalls = {}

KeyNext ==
    \/ HPrepareSchema
    \/ HInvalidate

KeySpec == KeyInit /\ [][KeyNext]_vars

(***************************************************************************)
(* utils/encryption.js: encrypt and decrypt of the stored Supabase keys.   *)
(* AES-256-CBC is represented by CipherTable, which gives for a plain text *)
(* and an IV the hexadecimal cipher text; any other (IV, data) pair fails  *)
(* in decipher.final.                                                      *)
(***************************************************************************)
\* encryption.js: IV_LENGTH
IV_LENGTH == 16
\* encryption.js: ENCRYPTION_KEY.length !== 32
KeyLength == 32

Ivs == {"00112233445566778899aabbccddeeff", "ffeeddccbbaa99887766554433221100"}

PlainTexts == {"my-secret-key", "anon-key", "service-key"}

CipherTable == {
    [plain |-> "my-secret-key", iv |-> "00112233445566778899aabbccddeeff",
     data |-> "8ff271f9ff2615c508b026eeb55fa512"],
    [plain |-> "my-secret-key", iv |-> "ffeeddccbbaa99887766554433221100",
     data |-> "dc3519e71e89b7d646359afb64a3b2a5"],
    [plain |-> "anon-key", iv |-> "00112233445566778899aabbccddeeff",
     data |-> "3b0ad49c19a00bca8b50e130e37a29ef"],
    [plain |-> "anon-key", iv |-> "ffeeddccbbaa99887766554433221100",
     data |-> "2293d06b24aedc9603200c21ad1573b5"],
    [plain |-> "service-key", iv |-> "00112233445566778899aabbccddeeff",
     data |-> "722d9a44fcfcde33e90748b7d3ef0733"],
    [plain |-> "service-key", iv |-> "ffeeddccbbaa99887766554433221100",
     data |-> "616bcf10ea867b802204f158d744c31f"]
}

\* process.env.ENCRYPTION_KEY: unset, 32 bytes, or too short
Environments ==
    {[keySet |-> FALSE, keyBytes |-> 0],
     [keySet |-> TRUE, keyBytes |-> KeyLength],
     [keySet |-> TRUE, keyBytes |-> IV_LENGTH]}

\* String.prototype.split(separator) for a one-character separator
RECURSIVE split(_, _)
split(cs, sep) ==
    IF \E i \in 1..Len(cs) : cs[i] = sep
    THEN LET at == CHOOSE i \in 1..Len(cs) :
                       cs[i] = sep /\ \A j \in 1..(i - 1) : cs[j] # sep
         IN  <<SubSeq(cs, 1, at - 1)>> \o split(SubSeq(cs, at + 1, Len(cs)), sep)
    ELSE <<cs>>

HexDigits == Digits \cup {"a", "b", "c", "d", "e", "f",
                          "A", "B", "C", "D", "E", "F"}

\* Buffer.from(text, 'hex').length: the pairs of hexadecimal digits at the
\* start of the text
RECURSIVE hexByteLength(_)
hexByteLength(cs) ==
    IF Len(cs) >= 2 /\ cs[1] \in HexDigits /\ cs[2] \in HexDigits
    THEN 1 + hexByteLength(SubSeq(cs, 3, Len(cs)))
    ELSE 0

thrown(message) == [threw |-> TRUE, message |-> message, value |-> null]
returned(value) == [threw |-> FALSE, message |-> null, value |-> value]

\* The checks encrypt and decrypt make of the environment before their try
keyCheck(env) ==
    IF ~env.keySet
    THEN thrown("ENCRYPTION_KEY environment variable is not set")
    ELSE IF env.keyBytes # KeyLength
         THEN thrown("ENCRYPTION_KEY must be 32 bytes (64 hex characters)")
         ELSE returned(null)

\* encrypt(text), with iv the bytes crypto.randomBytes returns
encrypt(text, env, iv) ==
    IF text = ""
    THEN thrown("Text to encrypt cannot be empty")
    ELSE IF keyCheck(env).threw
         THEN keyCheck(env)
         ELSE returned(iv \o ":"
                  \o (CHOOSE c \in CipherTable :
                          c.plain = text /\ c.iv = iv).data)

\* The body of decrypt's try block
decryptTry(text) ==
    LET parts == split(chars(text), ":")
    IN  IF Len(parts) # 2
        THEN thrown("Invalid encrypted data format")
        ELSE IF hexByteLength(parts[1]) # IV_LENGTH
             THEN thrown("Invalid initialization vector")
             ELSE IF \E c \in CipherTable :
                        c.iv = str(parts[1]) /\ c.data = str(parts[2])
                  THEN returned((CHOOSE c \in CipherTable :
                                    /\ c.iv = str(parts[1])
                                    /\ c.data = str(parts[2])).plain)
                  ELSE thrown("bad decrypt")

\* decrypt(text): the catch block replaces whatever the try block threw
decrypt(text, env) ==
    IF text = ""
    THEN thrown("Text to decrypt cannot be empty")
    ELSE IF keyCheck(env).threw
         THEN keyCheck(env)
         ELSE IF decryptTry(text).threw
              THEN thrown("Failed to decrypt data")
              ELSE decryptTry(text)

\* The texts handed to decrypt: malformed ones, cipher texts, a cipher text
\* under the wrong IV and one whose IV is not hexadecimal
DecryptInputs == {
    "",
    "invalid-format",
    "a:b:c",
    ":",
    "::",
    "no-colon",
    "00112233445566778899aabbccddeeff:8ff271f9ff2615c508b026eeb55fa512",
    "ffeeddccbbaa99887766554433221100:dc3519e71e89b7d646359afb64a3b2a5",
    "00112233445566778899aabbccddeeff:3b0ad49c19a00bca8b50e130e37a29ef",
    "ffeeddccbbaa99887766554433221100:2293d06b24aedc9603200c21ad1573b5",
    "00112233445566778899aabbccddeeff:722d9a44fcfcde33e90748b7d3ef0733",
    "ffeeddccbbaa99887766554433221100:616bcf10ea867b802204f158d744c31f",
    "00112233445566778899aabbccddeeff:dc3519e71e89b7d646359afb64a3b2a5",
    "zz:8ff271f9ff2615c508b026eeb55fa512"}

\* An input is drawn, then encrypted or decrypted; what encrypt returned is
\* decrypted in turn.
HEncrypt ==
    /\ obs.op = "encryption input" /\ obs.fn = "encrypt"
    /\ obs' = [op |-> "encrypt", text |-> obs.text, env |-> obs.env,
               out |-> encrypt(obs.text, obs.env, obs.iv)]
    /\ UNCHANGED <<build, now, cacheVars, pipelineVars>>

HDecrypt ==
    /\ \/ obs.op = "encryption input" /\ obs.fn = "decrypt"
       \/ obs.op = "encrypt" /\ ~obs.out.threw
    /\ LET text == IF obs.op = "encrypt" THEN obs.out.value ELSE obs.text
       IN  obs' = [op |-> "decrypt", text |-> text, env |-> obs.env,
                   out |-> decrypt(text, obs.env)]
    /\ UNCHANGED <<build, now, cacheVars, pipelineVars>>

EncryptionInit ==
    /\ build = [cache |-> "cache.js", fetcher |-> "schemaFetcher.js",
                ai |-> "aiService.js:51"]
    /\ now = 0
    /\ cache = [k \in Keys |-> NoEntry]
    /\ timers = [k \in Keys |-> NoTimer]
    /\ pending = {}
    /\ obs \in {[op |-> "encryption input", fn |-> "encrypt", text |-> text,
                 env |-> env, iv |-> iv] :
                    text \in PlainTexts \cup {""}, env \in Environments,
                    iv \in Ivs}
           \cup {[op |-> "encryption input", fn |-> "decrypt", text |-> text,
                  env |-> env, iv |-> null] :
                    text \in DecryptInputs, env \in Environments}
    /\ reqs = [i \in ReqIds |-> NoReq]
    /\ history = <<>>
    /\ executorCalls = {}

EncryptionNext ==
    \/ HEncrypt
    \/ HDecrypt

EncryptionSpec == EncryptionInit /\ [][EncryptionNext]_vars

(***************************************************************************)
(* Properties of the request handlers.                                     *)
(***************************************************************************)
\* The history records written for request i
recordsOf(i) == {k \in DOMAIN history : history[k].req = i}

\* The four ways a generate-sql attempt ends once it has its schema
AttemptOutcomes ==
    {"generation failed", "validation failed", "execution failed", "success"}

statusFor(outcome) == IF outcome = "success" THEN "success" ELSE "error"

\* The schema texts of a discovery that found at least one table
FoundTexts ==
    {schemaTextOf[build.fetcher][db] :
        db \in {d \in DbStates : tablesFound(build.fetcher, d) > 0}}

(***************************************************************************)
(* C1: every SQL text handed to executeSQLQuery, by generate-sql or by     *)
(* execute-sql, was handed to validateSQLSafety earlier in the same        *)
(* request and that call returned true.                                    *)
(***************************************************************************)
C1_ValidatedBeforeExecuted ==
    \A call \in executorCalls :
        /\ call.sql \in reqs[call.req].validatedOk
        /\ validateSQLSafety(call.sql)

\* A generate-sql request has handed its generated SQL to the executor.
C1_Witness ==
    \E call \in executorCalls :
        /\ reqs[call.req].kind = "generate-sql"
        /\ call.sql \in reqs[call.req].validatedOk

C3_SchemaFailureRecorded ==
    \A i \in ReqIds :
        (/\ reqs[i].kind = "generate-sql"
         /\ reqs[i].pc = "done"
         /\ reqs[i].outcome = "schema failed")
        => /\ reqs[i].response.status >= 400
           /\ Cardinality(recordsOf(i)) = 1
           /\ \A k \in recordsOf(i) : history[k].status = "error"

(***************************************************************************)
(* C4 (as stated): a finished execute-sql request whose history save did   *)
(* not fail has exactly one history record, of status success when the     *)
(* query ran and of status error when the validator rejected it or the     *)
(* database failed.                                                        *)
(***************************************************************************)
C4_RawExactlyOneRecord ==
    \A i \in ReqIds :
        (/\ reqs[i].kind = "execute-sql"
         /\ reqs[i].pc = "done"
         /\ ~reqs[i].saveFailed)
        => /\ Cardinality(recordsOf(i)) = 1
           /\ \A k \in recordsOf(i) :
                  history[k].status = statusFor(reqs[i].outcome)

(***************************************************************************)
(* C5 (as stated): when the save of the history record fails, the request  *)
(* is still answered with the outcome of the attempt: the success answer   *)
(* with its results, or the attempt's own error.                           *)
(***************************************************************************)
C5_SaveFailureNotSurfaced ==
    \A i \in ReqIds :
        (reqs[i].pc = "done" /\ reqs[i].saveFailed)
        => reqs[i].response =
               IF reqs[i].kind = "generate-sql"
               THEN generateResponse(reqs[i].result)
               ELSE rawResponse(reqs[i].result.rowCount,
                                reqs[i].result.executionTime)

C7_FailureKeepsRejectedSql ==
    \A i \in ReqIds :
        (/\ reqs[i].kind = "generate-sql"
         /\ reqs[i].pc \in {"save", "done"}
         /\ reqs[i].outcome \in {"validation failed", "generation failed"})
        => LET expected == IF reqs[i].outcome = "validation failed"
                           THEN reqs[i].sql ELSE null
           IN  /\ reqs[i].result.generatedSQL = expected
               /\ \A n \in DOMAIN reqs[i].logCalls :
                      reqs[i].logCalls[n].generatedSql = expected

(***************************************************************************)
(* C8 (as stated): a discovery that found no table leaves no cache entry:  *)
(* every cached schema text is the text of a discovery that found at       *)
(* least one table, never a failure placeholder.                           *)
(***************************************************************************)
C8_NoEntryWithoutTables ==
    \A k \in Keys :
        cache[k] # NoEntry => cache[k].value \in FoundTexts

(***************************************************************************)
(* C9 (as stated): a prepareSchema call that missed the cache and whose    *)
(* discovery found tables returns the text it stored; a call that hit the  *)
(* cache returns the cached text without a discovery.                      *)
(***************************************************************************)
C9_PrepareSchemaReturnsText ==
    \A i \in ReqIds :
        /\ (reqs[i].schemaString \in FoundTexts
            => /\ reqs[i].outcome # "schema failed"
               /\ reqs[i].schemaContext = reqs[i].schemaString)
        /\ (reqs[i].schemaContext # null
            => reqs[i].schemaString \in {null, reqs[i].schemaContext})

(***************************************************************************)
(* C10 (as stated): get(k) returns the stored value if and only if an      *)
(* entry for k exists whose age, now minus the time of the most recent     *)
(* set(k), is strictly less than its TTL; a value whose age equals or      *)
(* exceeds its TTL is never returned.                                      *)
(***************************************************************************)
C10_GetIffFresh ==
    obs.op = "get" =>
        ((obs.ret # null) <=>
            (obs.pre # NoEntry /\ obs.at - obs.pre.timestamp < obs.pre.ttl))


\* The armed timeouts of key k
timersOf(k) == {timer \in pending : timer.key = k}

\* The entry a set(k, value, ttl) at time t stores
entryOf(value, ttl, t) ==
    [value |-> value, timestamp |-> t, ttl |-> ttl * MsPerSecond]

(***************************************************************************)
(* C11 (as stated): a get(k) on an entry whose TTL has elapsed (its age is *)
(* at least its TTL) returns absent and leaves neither the entry nor its   *)
(* timer in the cache.                                                     *)
(***************************************************************************)
C11_ExpiredGetPurges ==
    (/\ obs.op = "get"
     /\ obs.pre # NoEntry
     /\ obs.at - obs.pre.timestamp >= obs.pre.ttl)
    => /\ obs.ret = null
       /\ cache[obs.key] = NoEntry
       /\ timers[obs.key] = NoTimer
       /\ timersOf(obs.key) = {}

(***************************************************************************)
(* C12: after a set(k, v2, t) over an existing entry, the cache holds for  *)
(* k only the entry of that second set, or nothing; it holds the entry as  *)
(* long as t seconds have not passed since the second set, and the only    *)
(* timeout armed for k is the one measured from the second set.            *)
(***************************************************************************)
C12_SecondSetReplaces ==
    (obs.op = "set" /\ obs.pre # NoEntry)
    => /\ cache[obs.key] \in {NoEntry, entryOf(obs.value, obs.ttl, obs.at)}
       /\ now < obs.at + obs.ttl * MsPerSecond => cache[obs.key] # NoEntry
       /\ timersOf(obs.key) \subseteq
              {[key |-> obs.key, due |-> obs.at + obs.ttl * MsPerSecond]}
       /\ cache[obs.key] # NoEntry => timersOf(obs.key) = {timers[obs.key]}

\* A second set replaced another value, the deadline of the first set has
\* passed, and the entry of the second set is still there.
C12_Witness ==
    /\ obs.op = "set"
    /\ obs.pre # NoEntry
    /\ obs.pre.value # obs.value
    /\ obs.at > obs.pre.timestamp
    /\ now >= obs.pre.timestamp + obs.pre.ttl
    /\ cache[obs.key] = entryOf(obs.value, obs.ttl, obs.at)

(***************************************************************************)
(* C13: delete(k) leaves no entry and no timer for k, expired or not, and  *)
(* reports whether there was an entry; in every reachable state a delete   *)
(* of an absent key changes nothing, a second delete(k) changes nothing    *)
(* after the first, and get(k) after delete(k) returns absent.             *)
(***************************************************************************)
C13_DeleteRemovesAndIsIdempotent ==
    /\ obs.op = "delete"
       => /\ cache[obs.key] = NoEntry
          /\ timers[obs.key] = NoTimer
          /\ timersOf(obs.key) = {}
          /\ obs.ret = IF obs.pre # NoEntry THEN "true" ELSE "false"
    /\ \A k \in Keys :
          LET once == delete(CacheState, k).C
          IN  /\ cache[k] = NoEntry => once = CacheState
              /\ delete(once, k) = [C |-> once, ret |-> FALSE]
              /\ get(once, k, now) = [C |-> once, ret |-> null]

\* An entry past its TTL, not yet removed by its timer, has been deleted.
C13_Witness ==
    /\ obs.op = "delete"
    /\ obs.ret = "true"
    /\ obs.pre # NoEntry
    /\ obs.at - obs.pre.timestamp >= obs.pre.ttl
    /\ cache[obs.key] = NoEntry

(***************************************************************************)
(* C14: in every reachable cache state and for every key k, has(k) is true *)
(* exactly when get(k) in that state returns a value, and the two leave    *)
(* the same cache state behind.                                            *)
(***************************************************************************)
C14_HasAgreesWithGet ==
    \A k \in Keys :
        /\ has(CacheState, k, now).ret = (get(CacheState, k, now).ret # null)
        /\ has(CacheState, k, now).C = get(CacheState, k, now).C

\* has(k) was called on an entry past its TTL and answered false.
C14_Witness ==
    /\ obs.op = "has"
    /\ obs.pre # NoEntry
    /\ obs.at - obs.pre.timestamp > obs.pre.ttl
    /\ obs.ret = "false"
    /\ cache[obs.key] = NoEntry


(***************************************************************************)
(* C15: when two requests miss on the same key and both run discovery,     *)
(* each set leaves for the key exactly the entry it wrote, with exactly    *)
(* one armed timeout measured from that set; so after both have finished   *)
(* the entry is the complete value of the later set.  At all times an      *)
(* entry of a schema key is the text one request discovered, with exactly  *)
(* one armed timeout, due one TTL after the entry was written.             *)
(***************************************************************************)
C15_LaterSetWins ==
    /\ [](\A u \in Users, c \in Conns :
            LET k == generateSchemaKey(u, c)
            IN  cache[k] # NoEntry
                => /\ \E i \in ReqIds : cache[k].value = reqs[i].schemaString
                   /\ timersOf(k) = {[key |-> k,
                                      due |-> cache[k].timestamp + cache[k].ttl]})
    /\ [][\A i \in ReqIds :
            (reqs[i].pc = "discover" /\ reqs'[i].pc # "discover")
            => LET k == generateSchemaKey(reqs[i].user, reqs[i].conn)
                   timer == [key |-> k,
                             due |-> now + schemaCacheTtl * MsPerSecond]
               IN  /\ cache'[k] = entryOf(reqs'[i].schemaString,
                                          schemaCacheTtl, now)
                   /\ timers'[k] = timer
                   /\ {t \in pending' : t.key = k} = {timer}]_vars

\* Two requests missed on the same key before either had written, both
\* discovered different texts, and both have finished.
C15_Witness ==
    /\ \A i \in ReqIds : reqs[i].outcome = "schema failed"
    /\ reqs[1].schemaString # reqs[2].schemaString
    /\ generateSchemaKey(reqs[1].user, reqs[1].conn)
         = generateSchemaKey(reqs[2].user, reqs[2].conn)
    /\ LET k == generateSchemaKey(reqs[1].user, reqs[1].conn)
       IN  /\ cache[k] # NoEntry
           /\ cache[k].timestamp < MsPerSecond
           /\ cache[k].value \in {reqs[1].schemaString, reqs[2].schemaString}
           /\ timersOf(k) = {timers[k]}


\* (a) of the validator's contract: the text, trimmed, begins with the
\* token SELECT in any letter case (SELECT, and no word character after it).
beginsWithSelectToken(cs) ==
    LET t == trim(cs)
    IN  /\ startsWith(toUpperCase(t), SELECT)
        /\ Len(t) = Len(SELECT) \/ ~IsWordChar(t[Len(SELECT) + 1])

\* (b) of the validator's contract: no denied keyword occurs as a whole word.
hasDeniedWord(cs) ==
    \E k \in 1..Len(dangerousKeywords) : wordTest(cs, dangerousKeywords[k])

(***************************************************************************)
(* C16 (as stated): validateSQLSafety accepts a text if and only if the    *)
(* text begins with the token SELECT and contains no denied keyword as a   *)
(* whole word; seen on the SQL texts posted to execute-sql, which pass the *)
(* check exactly when they were accepted.                                  *)
(***************************************************************************)
C16_AcceptsIffSelectTokenAndNoDeniedWord ==
    \A i \in ReqIds :
        (reqs[i].kind = "execute-sql" /\ reqs[i].pc \in {"execute", "save", "done"})
        => ((reqs[i].sql \in reqs[i].validatedOk)
            <=> (/\ beginsWithSelectToken(chars(reqs[i].sql))
                 /\ ~hasDeniedWord(chars(reqs[i].sql))))


\* The response of the model, its code fences stripped, begins with ERROR:
beginsWithErrorMarker(text) ==
    startsWith(stripCodeFences(trim(chars(text))), ERROR)

(***************************************************************************)
(* C17 (as stated): when the response of the model, after code-fence       *)
(* stripping, begins with the marker ERROR:, the attempt is a generation   *)
(* failure with no SQL, whatever follows the marker: nothing of it is      *)
(* handed to the safety validator or to the executor.                      *)
(***************************************************************************)
C17_ErrorMarkerIsGenerationFailure ==
    \A i \in ReqIds :
        (reqs[i].modelText # null /\ beginsWithErrorMarker(reqs[i].modelText))
        => /\ reqs[i].outcome = "generation failed"
           /\ reqs[i].sql = null
           /\ reqs[i].result.generatedSQL = null
           /\ reqs[i].validatedOk = {}
           /\ \A call \in executorCalls : call.req # i


(***************************************************************************)
(* Properties of schema discovery.                                         *)
(***************************************************************************)
\* The catalog listed no table: its table query failed or came back empty
catalogListsNothing(db) == db.tablesError \/ Len(db.tables) = 0

\* A catalog query that the call depends on failed
catalogFailed(db) == db.tablesError \/ db.columnsError

(***************************************************************************)
(* C18 (as stated): discovery runs the catalog strategy first and stops    *)
(* there when the catalog answers with a table; it runs row-sampling only  *)
(* after the catalog failed or listed no table, and it does run it when    *)
(* the catalog listed no table; every candidate table that answers the     *)
(* sampling is then in the result, with the columns inferred from its      *)
(* sampled row and with no foreign key.                                    *)
(***************************************************************************)
C18_StrategiesInOrderUntilATable ==
    obs.op \in {"buildSimpleSchema", "fetchDatabaseSchema"}
    => /\ obs.out.tried[1] = "catalog"
       /\ obs.out.tried # <<"catalog">>
          => /\ obs.out.tried = <<"catalog", "sampling">>
             /\ catalogFailed(obs.db) \/ catalogListsNothing(obs.db)
       /\ catalogListsNothing(obs.db)
          => /\ obs.out.tried = <<"catalog", "sampling">>
             /\ \A t \in obs.db.answers :
                  IF obs.op = "buildSimpleSchema"
                  THEN \E n \in DOMAIN obs.out.tables :
                          obs.out.tables[n] =
                              [table_name |-> t,
                               columns |-> inferredColumns(obs.db, t)]
                  ELSE /\ \E n \in DOMAIN obs.out.tables : obs.out.tables[n] = t
                       /\ obs.out.foreignKeys = <<>>

(***************************************************************************)
(* C19 (as stated): a discovery call whose strategies found no table       *)
(* reports a failure to its caller instead of returning a value, and a     *)
(* call that found a table does not fail.                                  *)
(***************************************************************************)
C19_NoTableIsReportedAsFailure ==
    obs.op \in {"buildSimpleSchema", "fetchDatabaseSchema"}
    => (obs.out.threw <=> Len(obs.out.tables) = 0)

(***************************************************************************)
(* C20: when the table and column queries succeed and the foreign-key      *)
(* query fails, fetchDatabaseSchema does not fail: it returns the tables   *)
(* and columns of the catalog with an empty foreign-key list.              *)
(***************************************************************************)
C20_ForeignKeyFailureTolerated ==
    (/\ obs.op = "fetchDatabaseSchema"
     /\ ~obs.db.tablesError
     /\ ~obs.db.columnsError
     /\ obs.db.fkError)
    => /\ ~obs.out.threw
       /\ obs.out.tables = obs.db.tables
       /\ obs.out.columns = obs.db.columns
       /\ obs.out.foreignKeys = <<>>

\* fetchDatabaseSchema returned a table with its columns although the
\* foreign-key query had failed.
C20_Witness ==
    /\ obs.op = "fetchDatabaseSchema"
    /\ obs.db.fkError
    /\ ~obs.out.threw
    /\ obs.out.tables = <<"students">>
    /\ obs.out.columns = StudentColumns
    /\ obs.out.foreignKeys = <<>>

(***************************************************************************)
(* Properties of the schema formatter.                                     *)
(***************************************************************************)
tableHeader(tableName) == "-- Table: " \o tableName \o "\n"

\* The tables of a formatted text, in the order of their header lines
emittedTables(lines) ==
    LET hs == SelectSeq(lines,
                  LAMBDA l : \E n \in TableNameSet : l = tableHeader(n))
    IN  [i \in 1..Len(hs) |-> CHOOSE n \in TableNameSet : hs[i] = tableHeader(n)]

namesOf(tables) == {tables[i].table_name : i \in 1..Len(tables)}

\* C21: buildPrioritizedSchema emits the tables named in priorityTables
\* first, in the order priorityTables gives them, then every other table
\* in lexicographic order of its name.
C21_PriorityOrderThenLexicographic ==
    obs.op = "buildPrioritizedSchema" =>
        emittedTables(obs.out.lines)
          = SelectSeq(obs.priorityTables,
                      LAMBDA n : n \in namesOf(obs.schemaData.tables))
            \o SelectSeq(TableNames,
                      LAMBDA n : /\ n \in namesOf(obs.schemaData.tables)
                                 /\ ~includes(obs.priorityTables, n))

\* The tables the strategies of one buildSimpleSchema call discover
discoveredTables(impl, db) ==
    IF ~db.tablesError /\ Len(db.tables) > 0
    THEN db.tables
    ELSE IF impl = "part_003" THEN answeringTables(db) ELSE <<>>

\* C22: every discovered table appears in the schema text given to the
\* model, with an empty block when none of its columns is known; no
\* discovered table is left out.
C22_EveryDiscoveredTableEmitted ==
    obs.op = "buildSimpleSchema" =>
        \A i \in 1..Len(discoveredTables(build.fetcher, obs.db)) :
            \E j \in 1..Len(obs.out.tables) :
                obs.out.tables[j].table_name
                  = discoveredTables(build.fetcher, obs.db)[i]

(***************************************************************************)
(* Properties of timing and of the recorded attempts.                      *)
(***************************************************************************)
\* C23: in the success case executionTime covers the Executing state only:
\* the clock is started when the query is handed to the executor, after
\* generation and validation, so the reported time is no longer than the
\* time since that call.
C23_ExecutionTimeCoversExecutingOnly ==
    \A i \in ReqIds :
        reqs[i].result.success =>
            \A c \in executorCalls :
                c.req = i =>
                    /\ reqs[i].startTime = c.at
                    /\ reqs[i].result.executionTime <= now - c.at

\* A field of a saved record holds a value (not null, not undefined)
presentText(v) == v \notin {null, "<undefined>"}
presentNumber(n) == n # -1

\* C24: in every recorded attempt errorMessage is present exactly when
\* status is error, and executionTime and rowCount are present exactly
\* when status is success.
C24_FieldsPresentByStatus ==
    \A k \in DOMAIN history :
        /\ presentText(history[k].errorMessage) <=> history[k].status = "error"
        /\ presentNumber(history[k].executionTime)
             <=> history[k].status = "success"
        /\ presentNumber(history[k].rowCount) <=> history[k].status = "success"

(***************************************************************************)
(* Properties of cache invalidation.                                       *)
(***************************************************************************)
\* An updateConnection or deleteConnection that has run its cache.delete
invalidationDone(j) ==
    /\ reqs[j].kind \in {"update-connection", "delete-connection"}
    /\ reqs[j].pc = "done"
    /\ reqs[j].response.status = 200

\* C28: once an update or delete of a connection has completed and the
\* requests that were awaiting discovery at that moment have finished, the
\* cache holds no entry for the connection's key that one of those
\* discoveries produced.
C28_NoEntryFromDiscoveryBeforeInvalidation ==
    \A j \in ReqIds :
        (/\ invalidationDone(j)
         /\ \A k \in reqs[j].inFlight : reqs[k].pc = "done")
        => LET key == connectionCacheKey(reqs[j].user, reqs[j].conn)
           IN  \A k \in reqs[j].inFlight :
                   \/ cache[key] = NoEntry
                   \/ cache[key].value # reqs[k].schemaString
                   \/ \E m \in ReqIds \ (reqs[j].inFlight \cup {j}) :
                          reqs[m].schemaString = cache[key].value

\* C25: the key of a (user, connection) pair is schema:<userId>:<connectionId>;
\* distinct pairs have distinct keys; update and delete compute the key the
\* query handlers use, so an invalidation leaves no entry for its pair and
\* leaves the entry of every other pair as it was.
C25_KeyPerPairAndExactInvalidation ==
    /\ generateSchemaKey("user123", "conn456") = "schema:user123:conn456"
    /\ \A u1 \in PairIds, c1 \in PairIds, u2 \in PairIds, c2 \in PairIds :
           /\ generateSchemaKey(u1, c1) = generateSchemaKey(u2, c2)
                => (u1 = u2 /\ c1 = c2)
           /\ connectionCacheKey(u1, c1) = generateSchemaKey(u1, c1)
    /\ obs.op = "invalidate" =>
           \A u \in PairIds, c \in PairIds :
               cache[generateSchemaKey(u, c)] =
                   IF u = obs.user /\ c = obs.conn
                   THEN NoEntry
                   ELSE obs.pre[generateSchemaKey(u, c)]

\* An invalidation removed the cached schema of its pair while another
\* connection of the same user and the same connection id of another user
\* keep theirs.
C25_Witness ==
    /\ obs.op = "invalidate"
    /\ obs.pre[generateSchemaKey(obs.user, obs.conn)] # NoEntry
    /\ cache[generateSchemaKey(obs.user, obs.conn)] = NoEntry
    /\ \E u \in PairIds \ {obs.user}, c \in PairIds \ {obs.conn} :
           /\ cache[generateSchemaKey(u, obs.conn)] # NoEntry
           /\ cache[generateSchemaKey(obs.user, c)] # NoEntry
           /\ cache[generateSchemaKey(obs.conn, obs.user)] # NoEntry

(***************************************************************************)
(* Properties of the orchestrator's error handling.                        *)
(***************************************************************************)
\* The messages of the errors generateSQLFromNaturalLanguage throws
generationMessages ==
    {generationOf[build.ai][reply].message :
        reply \in {p \in ProviderReplies : generationOf[build.ai][p].threw}}

\* The messages of the errors executeSQLQuery throws
executionMessages ==
    {out.message : out \in {o \in ExecOutcomes : ~o.ok}}

validKey(env) == env.keySet /\ env.keyBytes = KeyLength

\* C27: with the encryption key in place, decrypt of a non-empty text that
\* is not two parts separated by one ':' fails with 'Invalid encrypted
\* data format'; encrypt and decrypt of the empty text fail with their
\* 'cannot be empty' error; a failed call returns no value.
C27_MalformedInputErrors ==
    /\ (obs.op = "decrypt" /\ obs.text # "" /\ validKey(obs.env)
          /\ Len(split(chars(obs.text), ":")) # 2)
         => /\ obs.out.threw
            /\ obs.out.message = "Invalid encrypted data format"
    /\ (obs.op = "decrypt" /\ obs.text = "")
         => /\ obs.out.threw
            /\ obs.out.message = "Text to decrypt cannot be empty"
    /\ (obs.op = "encrypt" /\ obs.text = "")
         => /\ obs.out.threw
            /\ obs.out.message = "Text to encrypt cannot be empty"
    /\ (obs.op \in {"encrypt", "decrypt"} /\ obs.out.threw)
         => obs.out.value = null

(***************************************************************************)
(* Properties of the cache's expiry timers.                                *)
(***************************************************************************)
\* C29: after any sequence of set, get, has, delete, clear and timer
\* firings the keys with an armed expiry timeout are the keys with an
\* entry, each with exactly one timeout, the one recorded for the key and
\* armed by the set that stored the entry; right after clear() there is no
\* entry and no timeout, so a timeout armed before a clear never removes an
\* entry stored after it.
C29_TimersMatchEntries ==
    /\ \A k \in Keys :
           /\ (cache[k] # NoEntry) <=> (timers[k] # NoTimer)
           /\ timersOf(k) = IF cache[k] = NoEntry THEN {} ELSE {timers[k]}
    /\ \A t \in pending :
           /\ cache[t.key] # NoEntry
           /\ t.due = cache[t.key].timestamp + cache[t.key].ttl
    /\ obs.op = "clear" =>
           /\ \A k \in Keys : cache[k] = NoEntry /\ timers[k] = NoTimer
           /\ pending = {}

\* clear() has just run on a cache in which every key had an entry and an
\* armed timeout.
C29_Witness ==
    /\ obs.op = "clear"
    /\ obs.size = Cardinality(Keys)
    /\ \A k \in Keys : cache[k] = NoEntry
    /\ pending = {}

\* C30: every entry set() stores is eventually removed, read again or not:
\* while it is stored its timeout stays armed, due one TTL after the set,
\* and the event loop runs the callback, which deletes the entry.
C30_EntryEventuallyRemoved ==
    /\ \A k \in Keys : (cache[k] # NoEntry) ~> (cache[k] = NoEntry)
    /\ [](\A k \in Keys :
            cache[k] # NoEntry
            => [key |-> k, due |-> cache[k].timestamp + cache[k].ttl]
                   \in pending)

\* The timeout of an entry that was stored and never touched again has
\* removed it: the last call was the set, one TTL ago, and the entry and
\* its timeout are gone.
C30_Witness ==
    /\ obs.op = "set"
    /\ now >= obs.at + obs.ttl * MsPerSecond
    /\ cache[obs.key] = NoEntry
    /\ timers[obs.key] = NoTimer
    /\ timersOf(obs.key) = {}
====
